---- MODULE Spec2Model ----
(***************************************************************************)
(* Model of the CSS core of codescoop: the nested-selector resolver, the   *)
(* target matcher, the shadow-DOM matcher and the analysis cache of        *)
(* css-analyzer.js, the specificity calculator, the cascade engine and     *)
(* the conflict formatter of specificity-calculator.js, the ghost class    *)
(* detector of ghost-detector.js, the analysis loop of html-parser.js, the *)
(* conflict section of conversion-generator.js and fetchURL of             *)
(* url-fetcher.js.                                                         *)
(*                                                                         *)
(* Selector text is a sequence of one-character strings, so that the       *)
(* JavaScript string operations the code uses (includes, split, trim,      *)
(* replace, join) are modelled by what they do to the text.                *)
(***************************************************************************)
EXTENDS Integers, Sequences, FiniteSets, TLC

VARIABLES
    nodes,        \* postcss AST of one file, in document order
    walked,       \* number of AST nodes root.walkRules has passed
    resolved,     \* node index -> resolveNestedSelector(rule), for visited rules
    sheets,       \* file -> the matches analyzeCSS finds in it, in source order
    linkedFiles,  \* linkedFiles.css: the files the page links, in link order
    cssResults,   \* the per-file results collected so far, in arrival order
    conflicts,    \* the value returned by analyzeConflicts, once called
    pc,           \* where the report run stands: "author", "collect" or "done"
    selectorParts,\* the compound parts of the selector being written
    specificity,  \* the value returned by calculateSpecificity, once called
    selectorArg,  \* the value calculateSpecificity was called with, once called
    targetInfo,   \* the identity of the target element
    ruleParts,    \* the parts of the selector of the rule being matched
    matchInfo,    \* the values checkRuleMatch has returned, none or one
    projectMatches, \* the matches found in the project's stylesheets
    libraryMatches, \* the matches found in the libraries' stylesheets
    inlineStyles, \* the inline style blocks of the page
    ghostData,    \* the reports detectGhostClasses has returned, none or one
    parseCache,   \* the Map parseCache: its entries, in insertion order
    fileContents, \* what the files the environment writes hold on disk
    lastHit,      \* the cached entry a cache hit returned last, if any
    returned,     \* the value the latest analyzeCSS call returned, if any
    options,      \* the options fetchURL was first called with
    maxRedirects, \* the maxRedirects of the innermost fetchURL call
    requests,     \* the requests fetchURL has sent
    pending,      \* what is awaited: "request", "body" or "none"
    settled       \* how the promise of the first call was settled, if it was

resolverVars == <<nodes, walked, resolved>>
cascadeVars == <<sheets, linkedFiles, cssResults, conflicts, pc>>
specificityVars == <<selectorParts, specificity, selectorArg>>
matcherVars == <<targetInfo, ruleParts, matchInfo>>
ghostVars == <<projectMatches, libraryMatches, inlineStyles, ghostData>>
cacheVars == <<parseCache, fileContents, lastHit, returned>>
fetcherVars == <<options, maxRedirects, requests, pending, settled>>
vars == <<nodes, walked, resolved, sheets, linkedFiles, cssResults, conflicts, pc,
          selectorParts, specificity, selectorArg, targetInfo, ruleParts, matchInfo,
          projectMatches, libraryMatches, inlineStyles, ghostData,
          parseCache, fileContents, lastHit, returned,
          options, maxRedirects, requests, pending, settled>>

\* what the operations of one component leave alone
exceptResolver == <<cascadeVars, specificityVars, matcherVars, ghostVars, cacheVars, fetcherVars>>
exceptCascade == <<resolverVars, specificityVars, matcherVars, ghostVars, cacheVars, fetcherVars>>
exceptSpecificity == <<resolverVars, cascadeVars, matcherVars, ghostVars, cacheVars, fetcherVars>>
exceptMatcher == <<resolverVars, cascadeVars, specificityVars, ghostVars, cacheVars, fetcherVars>>
exceptGhost == <<resolverVars, cascadeVars, specificityVars, cacheVars, fetcherVars>>
exceptCache == <<resolverVars, cascadeVars, specificityVars, matcherVars, ghostVars, fetcherVars>>
exceptFetcher == <<resolverVars, cascadeVars, specificityVars, matcherVars, ghostVars, cacheVars>>

(***************************************************************************)
(* JavaScript string primitives on character sequences.                    *)
(***************************************************************************)

\* String.prototype.includes for a one-character needle
includes(s, c) == \E i \in 1..Len(s) : s[i] = c

isSpace(c) == c = " "

RECURSIVE trimStart(_)
trimStart(s) ==
    IF s # << >> /\ isSpace(Head(s)) THEN trimStart(Tail(s)) ELSE s

RECURSIVE trimEnd(_)
trimEnd(s) ==
    IF s # << >> /\ isSpace(s[Len(s)]) THEN trimEnd(SubSeq(s, 1, Len(s) - 1)) ELSE s

\* String.prototype.trim
trim(s) == trimEnd(trimStart(s))

\* String.prototype.split for a one-character separator: a sequence of pieces
RECURSIVE splitFrom(_, _, _, _)
splitFrom(s, c, i, cur) ==
    IF i > Len(s) THEN <<cur>>
    ELSE IF s[i] = c THEN <<cur>> \o splitFrom(s, c, i + 1, << >>)
    ELSE splitFrom(s, c, i + 1, Append(cur, s[i]))

split(s, c) == splitFrom(s, c, 1, << >>)

\* String.prototype.replace(/c/g, r): every occurrence of c becomes r
RECURSIVE replaceAll(_, _, _)
replaceAll(s, c, r) ==
    IF s = << >> THEN << >>
    ELSE (IF Head(s) = c THEN r ELSE <<Head(s)>>) \o replaceAll(Tail(s), c, r)

\* Array.prototype.join
RECURSIVE join(_, _)
join(parts, sep) ==
    IF parts = << >> THEN << >>
    ELSE IF Len(parts) = 1 THEN parts[1]
    ELSE parts[1] \o sep \o join(Tail(parts), sep)

CommaSpace == <<",", " ">>

(***************************************************************************)
(* resolveNestedSelector (css-analyzer.js)                                 *)
(***************************************************************************)

\* parentSelector.split(',').map(s => s.trim())
parentBranches(parentSelector) ==
    LET pieces == split(parentSelector, ",")
    IN  [i \in 1..Len(pieces) |-> trim(pieces[i])]

\* a resolver that substitutes the whole parent list for `&` without fanning out
nestAmpersandNoFanOut(parentSelector, selfSelector) ==
    replaceAll(selfSelector, "&", parentSelector)

\* the branch taken when selfSelector.includes('&')
nestAmpersand(parentSelector, selfSelector) ==
    IF includes(parentSelector, ",")
    THEN LET parents == parentBranches(parentSelector)
         IN  join([i \in 1..Len(parents) |->
                      replaceAll(selfSelector, "&", parents[i])], CommaSpace)
    ELSE replaceAll(selfSelector, "&", parentSelector)

\* a resolver that appends the child to the parent list as a whole
nestDescendantNoFanOut(parentSelector, selfSelector) ==
    parentSelector \o <<" ">> \o selfSelector

\* the branch taken otherwise: standard CSS nesting (descendant)
nestDescendant(parentSelector, selfSelector) ==
    IF includes(parentSelector, ",")
    THEN LET parents == parentBranches(parentSelector)
         IN  join([i \in 1..Len(parents) |->
                      parents[i] \o <<" ">> \o selfSelector], CommaSpace)
    ELSE parentSelector \o <<" ">> \o selfSelector

\* rule.parent is absent (the root, index 0) or is not of type 'rule'
parentIsRule(ns, k) == ns[k].parent # 0 /\ ns[ns[k].parent].type = "rule"

RECURSIVE resolveNestedSelector(_, _)
resolveNestedSelector(ns, k) ==
    IF ~parentIsRule(ns, k)
    THEN ns[k].selector
    ELSE LET parentSelector == resolveNestedSelector(ns, ns[k].parent)
             selfSelector == ns[k].selector
         IN  IF includes(selfSelector, "&")
             THEN nestAmpersand(parentSelector, selfSelector)
             ELSE nestDescendant(parentSelector, selfSelector)

(***************************************************************************)
(* calculateSpecificity (specificity-calculator.js) and the `calculate`    *)
(* function of the `specificity` package it delegates to.                  *)
(***************************************************************************)

IdentChars == {"a", "b", "c", "d", "e", "h", "i", "m", "n", "o", "p", "r",
               "s", "t", "u", "v", "w", "x", "-", "_"}
Combinators == {" ", ">", "+", "~", ","}

addSpec(x, y) == [A |-> x.A + y.A, B |-> x.B + y.B, C |-> x.C + y.C]
ZeroSpec == [A |-> 0, B |-> 0, C |-> 0]

specLess(x, y) ==
    \/ x.A < y.A
    \/ x.A = y.A /\ x.B < y.B
    \/ x.A = y.A /\ x.B = y.B /\ x.C < y.C

\* index of the ")" closing the "(" at position i, or 0 when there is none
RECURSIVE closingParen(_, _, _)
closingParen(s, j, depth) ==
    IF j > Len(s) THEN 0
    ELSE IF s[j] = "(" THEN closingParen(s, j + 1, depth + 1)
    ELSE IF s[j] = ")" THEN (IF depth = 1 THEN j ELSE closingParen(s, j + 1, depth - 1))
    ELSE closingParen(s, j + 1, depth)

\* first position at or after i that holds no identifier character
RECURSIVE identEnd(_, _)
identEnd(s, i) ==
    IF i <= Len(s) /\ s[i] \in IdentChars THEN identEnd(s, i + 1) ELSE i

\* the arguments of a functional pseudo-class, split at its top-level commas
RECURSIVE splitArgs(_, _, _, _)
splitArgs(s, i, depth, cur) ==
    IF i > Len(s) THEN <<cur>>
    ELSE IF s[i] = "," /\ depth = 0 THEN <<cur>> \o splitArgs(s, i + 1, 0, << >>)
    ELSE splitArgs(s, i + 1,
                   IF s[i] = "(" THEN depth + 1
                   ELSE IF s[i] = ")" THEN depth - 1 ELSE depth,
                   Append(cur, s[i]))

RECURSIVE maxSpec(_)
maxSpec(specs) ==
    IF specs = << >> THEN ZeroSpec
    ELSE LET rest == maxSpec(Tail(specs))
         IN  IF specLess(Head(specs), rest) THEN rest ELSE Head(specs)

PseudoWhere == <<"w", "h", "e", "r", "e">>
PseudoMax == { <<"i", "s">>, <<"n", "o", "t">>, <<"h", "a", "s">> }

\* the package's calculate(selector): { A: ids, B: classes, C: elements }
RECURSIVE calculateFrom(_, _, _)
calculateFrom(s, i, atStart) ==
    IF i > Len(s) THEN ZeroSpec
    ELSE LET c == s[i] IN
      CASE c = "#" -> addSpec([A |-> 1, B |-> 0, C |-> 0],
                              calculateFrom(s, identEnd(s, i + 1), FALSE))
        [] c = "." -> addSpec([A |-> 0, B |-> 1, C |-> 0],
                              calculateFrom(s, identEnd(s, i + 1), FALSE))
        [] c = ":" /\ i < Len(s) /\ s[i + 1] = ":" ->
                      addSpec([A |-> 0, B |-> 0, C |-> 1],
                              calculateFrom(s, identEnd(s, i + 2), FALSE))
        [] c = ":" /\ ~(i < Len(s) /\ s[i + 1] = ":") ->
              LET e    == identEnd(s, i + 1)
                  name == SubSeq(s, i + 1, e - 1)
                  close == IF e <= Len(s) /\ s[e] = "(" THEN closingParen(s, e, 0) ELSE 0
              IN  IF close = 0
                  THEN addSpec([A |-> 0, B |-> 1, C |-> 0], calculateFrom(s, e, FALSE))
                  ELSE LET args == splitArgs(SubSeq(s, e + 1, close - 1), 1, 0, << >>)
                           own  ==
                             IF name = PseudoWhere THEN ZeroSpec
                             ELSE IF name \in PseudoMax
                             THEN maxSpec([k \in 1..Len(args) |->
                                             calculateFrom(args[k], 1, TRUE)])
                             ELSE [A |-> 0, B |-> 1, C |-> 0]
                       IN  addSpec(own, calculateFrom(s, close + 1, FALSE))
        [] c \in Combinators -> calculateFrom(s, i + 1, TRUE)
        [] c \in IdentChars /\ atStart ->
                      addSpec([A |-> 0, B |-> 0, C |-> 1],
                              calculateFrom(s, identEnd(s, i), FALSE))
        [] OTHER -> calculateFrom(s, i + 1, FALSE)

calculate(selector) == calculateFrom(selector, 1, TRUE)

\* every "(" of the text is closed and every ")" closes one
RECURSIVE parensClose(_, _, _)
parensClose(s, i, depth) ==
    IF i > Len(s) THEN depth = 0
    ELSE IF s[i] = "(" THEN parensClose(s, i + 1, depth + 1)
    ELSE IF s[i] = ")" THEN depth > 0 /\ parensClose(s, i + 1, depth - 1)
    ELSE parensClose(s, i + 1, depth)

\* the package's parser rejects the text: calculate(selector) throws
calculateThrows(selector) == ~parensClose(selector, 1, 0)

\* a JavaScript value: its typeof and, for a string, its text
String(text) == [type |-> "string", text |-> text]
Undefined == [type |-> "undefined", text |-> << >>]
NumberValue == [type |-> "number", text |-> << >>]
ObjectValue == [type |-> "object", text |-> << >>]
NonStrings == {Undefined, NumberValue, ObjectValue}

\* a calculator that returns the package's three terms without the inline slot
calculateSpecificityNoInline(selector) ==
    IF selector.type # "string" \/ selector.text = << >> THEN <<0, 0, 0, 0>>
    ELSE IF calculateThrows(selector.text) THEN <<0, 0, 0, 0>>
    ELSE LET result == calculate(selector.text)
         IN  <<result.A, result.B, result.C, 0>>

\* [inline, ids, classes, elements]; zeroes for a value that is no text, for
\* the empty text and when calculate throws
calculateSpecificity(selector) ==
    IF selector.type # "string" \/ selector.text = << >> THEN <<0, 0, 0, 0>>
    ELSE IF calculateThrows(selector.text) THEN <<0, 0, 0, 0>>
    ELSE LET result == calculate(selector.text)
         IN  <<0, result.A, result.B, result.C>>

\* a comparison that starts at the least significant term
RECURSIVE compareSpecificityLowFirst(_, _)
compareSpecificityLowFirst(a, b) ==
    IF a = << >> THEN 0
    ELSE IF a[Len(a)] > b[Len(b)] THEN 1
    ELSE IF a[Len(a)] < b[Len(b)] THEN -1
    ELSE compareSpecificityLowFirst(SubSeq(a, 1, Len(a) - 1), SubSeq(b, 1, Len(b) - 1))

RECURSIVE compareFrom(_, _, _)
compareFrom(a, b, i) ==
    IF i > 4 THEN 0
    ELSE IF a[i] > b[i] THEN 1
    ELSE IF a[i] < b[i] THEN -1
    ELSE compareFrom(a, b, i + 1)

\* -1 if a < b, 0 if equal, 1 if a > b
compareSpecificity(a, b) == compareFrom(a, b, 1)

\* value.includes('!important'); a value is its sequence of tokens
hasImportant(value) == \E i \in 1..Len(value) : value[i] = "!important"

(***************************************************************************)
(* parseProperties: the declarations of a rule body as an object, whose    *)
(* entries are in first-insertion order and hold the last value assigned.  *)
(***************************************************************************)

RECURSIVE parseProperties(_)
parseProperties(content) ==
    IF content = << >> THEN << >>
    ELSE LET decl == content[Len(content)]
             before == parseProperties(SubSeq(content, 1, Len(content) - 1))
         IN  IF decl.prop = "" \/ decl.value = << >> THEN before
             ELSE IF \E i \in 1..Len(before) : before[i].prop = decl.prop
             THEN [i \in 1..Len(before) |->
                     IF before[i].prop = decl.prop THEN decl ELSE before[i]]
             ELSE Append(before, decl)

\* no selector has been measured
SpecificityIdle ==
    /\ selectorParts = << >>
    /\ specificity = << >>
    /\ selectorArg = << >>

\* no stylesheet has been parsed
ResolverIdle ==
    /\ nodes = << >>
    /\ walked = 0
    /\ resolved = << >>

\* maxRedirects = 5 in the defaults of fetchURL
DefaultMaxRedirects == 5

\* fetchURL has not been called
FetcherIdle ==
    /\ options = [followRedirects |-> TRUE, maxRedirects |-> DefaultMaxRedirects]
    /\ maxRedirects = DefaultMaxRedirects
    /\ requests = 0
    /\ pending = "none"
    /\ settled = << >>

\* no rule has been matched against a target
MatcherIdle ==
    /\ targetInfo = [classes |-> << >>, ids |-> << >>, tagName |-> <<"a">>,
                     dataAttributes |-> << >>]
    /\ ruleParts = << >>
    /\ matchInfo = << >>

\* no ghost report has been asked for
GhostIdle ==
    /\ projectMatches = << >>
    /\ libraryMatches = << >>
    /\ inlineStyles = << >>
    /\ ghostData = << >>

\* the files the environment rewrites while the analyzer runs
MaxFiles == 2

\* a stylesheet: whether it can be read, whether its text is blank, whether
\* postcss parses it, and the selectors of its rules
StyleOriginal == [readable |-> TRUE, blank |-> FALSE, parses |-> TRUE,
                  rules |-> << <<".", "b", "t", "n">> >>]
StyleEdited   == [readable |-> TRUE, blank |-> FALSE, parses |-> TRUE,
                  rules |-> << <<".", "b", "t", "n", "-", "g", "r", "o", "u", "p">> >>]
StyleEmpty    == [readable |-> TRUE, blank |-> TRUE, parses |-> TRUE, rules |-> << >>]
StyleMissing  == [readable |-> FALSE, blank |-> TRUE, parses |-> FALSE, rules |-> << >>]
\* `.btn {` without its closing brace
StyleBroken   == [readable |-> TRUE, blank |-> FALSE, parses |-> FALSE, rules |-> << >>]
\* a comment and nothing else
StyleComment  == [readable |-> TRUE, blank |-> FALSE, parses |-> TRUE, rules |-> << >>]

\* nothing has been analysed, every file is as the project ships it
CacheIdle ==
    /\ parseCache = << >>
    /\ fileContents = [k \in 1..MaxFiles |-> StyleOriginal]
    /\ lastHit = << >>
    /\ returned = << >>

(***************************************************************************)
(* analyzeConflicts (specificity-calculator.js)                            *)
(***************************************************************************)

UnlistedOrder == 999

\* a lookup that puts a file the list does not name before every listed file
fileOrderOfUnlistedFirst(linked, filePath) ==
    IF \E i \in 1..Len(linked) : linked[i] = filePath
    THEN (CHOOSE i \in 1..Len(linked) :
             /\ linked[i] = filePath
             /\ \A j \in (i + 1)..Len(linked) : linked[j] # filePath) - 1
    ELSE -1

\* fileOrder[filePath] ?? 999, after linkedFiles.css.forEach((file, index) => ...)
fileOrderOf(linked, filePath) ==
    IF \E i \in 1..Len(linked) : linked[i] = filePath
    THEN (CHOOSE i \in 1..Len(linked) :
             /\ linked[i] = filePath
             /\ \A j \in (i + 1)..Len(linked) : linked[j] # filePath) - 1
    ELSE UnlistedOrder

\* the entries one match pushes, numbered from globalOrder g
matchEntries(filePath, order, match, g) ==
    LET properties == parseProperties(match.content)
    IN  [j \in 1..Len(properties) |->
            [prop         |-> properties[j].prop,
             selector     |-> match.selector,
             specificity  |-> calculateSpecificity(String(match.selector)),
             value        |-> properties[j].value,
             hasImportant |-> hasImportant(properties[j].value),
             file         |-> filePath,
             fileOrder    |-> order,
             globalOrder  |-> g + j - 1,
             startLine    |-> match.startLine]]

RECURSIVE resultEntries(_, _, _, _)
resultEntries(filePath, order, matches, g) ==
    IF matches = << >> THEN << >>
    ELSE LET first == matchEntries(filePath, order, Head(matches), g)
         IN  first \o resultEntries(filePath, order, Tail(matches), g + Len(first))

\* every pushed entry, in the order of the collecting loops
RECURSIVE collectEntries(_, _, _)
collectEntries(results, linked, g) ==
    IF results = << >> THEN << >>
    ELSE LET r == Head(results)
             first == resultEntries(r.filePath, fileOrderOf(linked, r.filePath),
                                    r.matches, g)
         IN  first \o collectEntries(Tail(results), linked, g + Len(first))

\* propertyRules[prop]
propertyRules(entries, prop) == SelectSeq(entries, LAMBDA e : e.prop = prop)

\* a comparator that leaves `!important` out
compareRulesNoImportant(a, b) ==
    LET specCompare == compareSpecificity(a.specificity, b.specificity)
    IN  IF specCompare # 0 THEN specCompare
        ELSE IF a.fileOrder # b.fileOrder THEN a.fileOrder - b.fileOrder
        ELSE a.globalOrder - b.globalOrder

\* a comparator that leaves the file order out
compareRulesNoFileOrder(a, b) ==
    IF a.hasImportant /\ ~b.hasImportant THEN 1
    ELSE IF ~a.hasImportant /\ b.hasImportant THEN -1
    ELSE LET specCompare == compareSpecificity(a.specificity, b.specificity)
         IN  IF specCompare # 0 THEN specCompare
             ELSE a.globalOrder - b.globalOrder

\* the comparator handed to sort
compareRules(a, b) ==
    IF a.hasImportant /\ ~b.hasImportant THEN 1
    ELSE IF ~a.hasImportant /\ b.hasImportant THEN -1
    ELSE LET specCompare == compareSpecificity(a.specificity, b.specificity)
         IN  IF specCompare # 0 THEN specCompare
             ELSE IF a.fileOrder # b.fileOrder THEN a.fileOrder - b.fileOrder
             ELSE a.globalOrder - b.globalOrder

\* Array.prototype.sort (stable): x goes after the last element not above it
RECURSIVE insertSorted(_, _)
insertSorted(sorted, x) ==
    IF sorted = << >> THEN <<x>>
    ELSE IF compareRules(sorted[Len(sorted)], x) <= 0 THEN Append(sorted, x)
    ELSE Append(insertSorted(SubSeq(sorted, 1, Len(sorted) - 1), x), sorted[Len(sorted)])

RECURSIVE sortRules(_)
sortRules(rules) ==
    IF rules = << >> THEN << >>
    ELSE insertSorted(sortRules(SubSeq(rules, 1, Len(rules) - 1)), rules[Len(rules)])

\* a decision whose losers keep the winner
decideKeepWinner(rules) ==
    LET sorted == sortRules(rules)
    IN  [winner |-> sorted[Len(sorted)],
         losers |-> sorted,
         hasConflict |-> Len(sorted) > 0]

\* a decision whose losers are listed strongest first
decideLosersReversed(rules) ==
    LET sorted == sortRules(rules)
        losers == SubSeq(sorted, 1, Len(sorted) - 1)
    IN  [winner |-> sorted[Len(sorted)],
         losers |-> [i \in 1..Len(losers) |-> losers[Len(losers) + 1 - i]],
         hasConflict |-> Len(losers) > 0]

\* conflicts[prop] = { winner, losers, hasConflict }
decide(rules) ==
    LET sorted == sortRules(rules)
        losers == SubSeq(sorted, 1, Len(sorted) - 1)
    IN  [winner |-> sorted[Len(sorted)],
         losers |-> losers,
         hasConflict |-> Len(losers) > 0]

analyzeConflicts(results, linked) ==
    LET entries == collectEntries(results, linked, 0)
        props == {entries[i].prop : i \in 1..Len(entries)}
    IN  [prop \in {q \in props : ~(Len(propertyRules(entries, q)) <= 1)} |->
            decide(propertyRules(entries, prop))]

(***************************************************************************)
(* formatConflictsMarkdown (specificity-calculator.js)                     *)
(***************************************************************************)

\* Array.prototype.reverse
reverse(list) == [i \in 1..Len(list) |-> list[Len(list) + 1 - i]]

\* one row of the table of a property
tableRow(status, rule) ==
    [status |-> status, file |-> rule.file, selector |-> rule.selector,
     value |-> rule.value, specificity |-> rule.specificity,
     important |-> rule.hasImportant]

\* the text returned, as the rows under each property's heading, and the
\* conflict map as the call leaves it: `losers.reverse()` reverses in place
formatConflictsMarkdown(cs) ==
    LET conflictingProps == {q \in DOMAIN cs : cs[q].hasConflict}
    IN  [md |-> [q \in conflictingProps |->
                   <<tableRow("Winner", cs[q].winner)>>
                   \o [i \in 1..Len(cs[q].losers) |->
                          tableRow("Overridden", reverse(cs[q].losers)[i])]],
         conflicts |-> [q \in DOMAIN cs |->
                          IF q \in conflictingProps
                          THEN [cs[q] EXCEPT !.losers = reverse(cs[q].losers)]
                          ELSE cs[q]]]

(***************************************************************************)
(* The report run the cascade engine is part of: stylesheets are written,  *)
(* the page links some of them, the per-file results arrive in any order   *)
(* and analyzeConflicts is called on what was collected.                   *)
(***************************************************************************)

MaxMatches == 3

Files == {"a.css", "b.css"}

SelId == <<"#", "i">>
MatchSelectors == {<<".", "a">>, SelId}

DeclRed     == << [prop |-> "color", value |-> <<"red">>] >>
DeclBlueImp == << [prop |-> "color", value |-> <<"blue", "!important">>] >>
DeclMargin  == << [prop |-> "margin", value |-> <<"0">>],
                  [prop |-> "color", value |-> <<"green">>] >>
Contents == {DeclRed, DeclBlueImp, DeclMargin}

RECURSIVE sumLen(_, _)
sumLen(f, S) ==
    IF S = {} THEN 0
    ELSE LET x == CHOOSE y \in S : TRUE IN Len(f[x]) + sumLen(f, S \ {x})

arrived == {cssResults[i].filePath : i \in 1..Len(cssResults)}

CascadeIdle ==
    /\ sheets = [f \in Files |-> << >>]
    /\ linkedFiles = << >>
    /\ cssResults = << >>
    /\ conflicts = << >>
    /\ pc = "author"

\* a rule matching the target is written at the end of file f
AuthorMatch(f, sel, content) ==
    /\ pc = "author"
    /\ sumLen(sheets, Files) < MaxMatches
    /\ sheets' = [sheets EXCEPT ![f] =
                    Append(@, [selector |-> sel, content |-> content,
                               startLine |-> Len(@) + 1])]
    /\ UNCHANGED <<linkedFiles, cssResults, conflicts, pc>>
    /\ UNCHANGED exceptCascade

\* the page links file f after the files it links already
LinkFile(f) ==
    /\ pc = "author"
    /\ \A i \in 1..Len(linkedFiles) : linkedFiles[i] # f
    /\ linkedFiles' = Append(linkedFiles, f)
    /\ UNCHANGED <<sheets, cssResults, conflicts, pc>>
    /\ UNCHANGED exceptCascade

\* the analysis result of file f arrives
Arrive(f) ==
    /\ pc \in {"author", "collect"}
    /\ f \notin arrived
    /\ cssResults' = Append(cssResults, [filePath |-> f, matches |-> sheets[f]])
    /\ pc' = "collect"
    /\ UNCHANGED <<sheets, linkedFiles, conflicts>>
    /\ UNCHANGED exceptCascade

AnalyzeConflicts ==
    /\ pc = "collect"
    /\ arrived = Files
    /\ conflicts' = analyzeConflicts(cssResults, linkedFiles)
    /\ pc' = "done"
    /\ UNCHANGED <<sheets, linkedFiles, cssResults>>
    /\ UNCHANGED exceptCascade

CascadeInit ==
    /\ CascadeIdle
    /\ ResolverIdle
    /\ FetcherIdle
    /\ SpecificityIdle
    /\ MatcherIdle
    /\ GhostIdle
    /\ CacheIdle

CascadeNext ==
    \/ \E f \in Files, sel \in MatchSelectors, content \in Contents :
          AuthorMatch(f, sel, content)
    \/ \E f \in Files : LinkFile(f)
    \/ \E f \in Files : Arrive(f)
    \/ AnalyzeConflicts

SpecCascade == CascadeInit /\ [][CascadeNext]_vars

(***************************************************************************)
(* The stylesheets the resolver is run on.                                 *)
(***************************************************************************)

MaxNodes == 3

SelA      == <<".", "a">>
SelAB     == <<".", "a", ",", " ", ".", "b">>
SelABwide == <<".", "a", " ", ",", ".", "b">>
SelC      == <<".", "c">>
SelAmpX   == <<"&", "-", "-", "x">>
SelAmpAmp == <<"&", " ", "+", " ", "&">>
SelAmpXC  == <<"&", "-", "-", "x", ",", " ", ".", "c">>

\* selectors of rules written with no enclosing rule
PlainSelectors == {SelA, SelAB, SelABwide, SelC}
\* selectors of rules written inside another rule
NestedSelectors == PlainSelectors \cup {SelAmpX, SelAmpAmp, SelAmpXC}

AtRuleParams == <<"m", "e", "d", "i", "a">>

RECURSIVE ancestorsOrSelf(_, _)
ancestorsOrSelf(ns, k) ==
    IF k = 0 THEN {0} ELSE {k} \cup ancestorsOrSelf(ns, ns[k].parent)

hasRuleAncestor(ns, p) ==
    \E a \in ancestorsOrSelf(ns, p) : a # 0 /\ ns[a].type = "rule"

\* The containers a node appended in document order can be written in: the
\* root or a block still open at the end of the text parsed so far.
openBlocks(ns) == ancestorsOrSelf(ns, Len(ns))

NoResult == <<"<", "n", "o", "n", "e", ">">>

ResolveInit ==
    /\ ResolverIdle
    /\ FetcherIdle
    /\ CascadeIdle
    /\ SpecificityIdle
    /\ MatcherIdle
    /\ GhostIdle
    /\ CacheIdle

\* postcss.parse reads one more rule
ParseRule(p, sel) ==
    /\ walked = 0
    /\ Len(nodes) < MaxNodes
    /\ p \in openBlocks(nodes)
    /\ sel \in (IF hasRuleAncestor(nodes, p) THEN NestedSelectors ELSE PlainSelectors)
    /\ nodes' = Append(nodes, [type |-> "rule", selector |-> sel, parent |-> p])
    /\ UNCHANGED <<walked, resolved>>
    /\ UNCHANGED exceptResolver

\* postcss.parse reads one more at-rule block (@media ...)
ParseAtRule(p) ==
    /\ walked = 0
    /\ Len(nodes) < MaxNodes
    /\ p \in openBlocks(nodes)
    /\ nodes' = Append(nodes, [type |-> "atrule", selector |-> AtRuleParams, parent |-> p])
    /\ UNCHANGED <<walked, resolved>>
    /\ UNCHANGED exceptResolver

\* root.walkRules passes the next node; its callback resolves a rule
WalkRules ==
    /\ walked < Len(nodes)
    /\ walked' = walked + 1
    /\ resolved' = Append(resolved,
                     IF nodes[walked + 1].type = "rule"
                     THEN resolveNestedSelector(nodes, walked + 1)
                     ELSE NoResult)
    /\ UNCHANGED nodes
    /\ UNCHANGED exceptResolver

ResolveNext ==
    \/ \E p \in 0..MaxNodes, sel \in NestedSelectors : ParseRule(p, sel)
    \/ \E p \in 0..MaxNodes : ParseAtRule(p)
    \/ WalkRules

SpecResolve == ResolveInit /\ [][ResolveNext]_vars

(***************************************************************************)
(* Selectors handed to calculateSpecificity: a selector is written part by *)
(* part and then measured.                                                 *)
(***************************************************************************)

MaxParts == 3

PartClass      == <<".", "a">>
PartId         == <<"#", "i">>
PartType       == <<" ", "p">>
PartIsMenu     == <<":", "i", "s", "(", ".", "m", "e", "n", "u", ")">>
PartWhereAB    == <<":", "w", "h", "e", "r", "e", "(", ".", "a", ",", " ", ".", "b", ")">>
PartWhereActive == <<":", "w", "h", "e", "r", "e", "(", ".", "a", "c", "t", "i", "v", "e", ")">>
PartWhereIdP   == <<":", "w", "h", "e", "r", "e", "(", "#", "i", " ", "p", ")">>

PartUnclosed   == <<":", "i", "s", "(">>

WhereParts == {PartWhereAB, PartWhereActive, PartWhereIdP}
SelectorParts == {PartClass, PartId, PartType, PartIsMenu} \cup WhereParts

selectorText(parts) == join(parts, << >>)

\* one more part is appended to the selector
WritePart(part) ==
    /\ specificity = << >>
    /\ Len(selectorParts) < MaxParts
    /\ selectorParts' = Append(selectorParts, part)
    /\ UNCHANGED <<specificity, selectorArg>>
    /\ UNCHANGED exceptSpecificity

\* one call calculateSpecificity(selector)
CalculateSpecificity(selector) ==
    /\ specificity = << >>
    /\ selectorArg' = <<selector>>
    /\ specificity' = calculateSpecificity(selector)
    /\ UNCHANGED selectorParts
    /\ UNCHANGED exceptSpecificity

SpecificityInit ==
    /\ SpecificityIdle
    /\ ResolverIdle
    /\ FetcherIdle
    /\ CascadeIdle
    /\ MatcherIdle
    /\ GhostIdle
    /\ CacheIdle

SpecificityNext ==
    \/ \E part \in SelectorParts : WritePart(part)
    \/ CalculateSpecificity(String(selectorText(selectorParts)))
    \/ \E value \in NonStrings : selectorParts = << >> /\ CalculateSpecificity(value)

SpecSpecificity == SpecificityInit /\ [][SpecificityNext]_vars

(***************************************************************************)
(* C7: `:where(...)` has zero specificity whatever its argument:           *)
(* `:where(.a, .b)` yields (0,0,0,0) and a `:where(...)` part adds nothing *)
(* to any term of a larger selector; `:is(.menu):where(.active)` has class *)
(* term 1 and element term 0.                                              *)
(***************************************************************************)
\* what a part other than `:where(...)` contributes to the four terms
partTerms(part) ==
    CASE part = PartId     -> <<0, 1, 0, 0>>
      [] part = PartClass  -> <<0, 0, 1, 0>>
      [] part = PartIsMenu -> <<0, 0, 1, 0>>
      [] part = PartType   -> <<0, 0, 0, 1>>
      [] OTHER             -> <<0, 0, 0, 0>>

RECURSIVE termsWithoutWhere(_)
termsWithoutWhere(parts) ==
    IF parts = << >> THEN <<0, 0, 0, 0>>
    ELSE LET rest == termsWithoutWhere(Tail(parts))
             own  == IF Head(parts) \in WhereParts THEN <<0, 0, 0, 0>>
                     ELSE partTerms(Head(parts))
         IN  [i \in 1..4 |-> own[i] + rest[i]]

C7_WhereIsZero ==
    specificity # << >> =>
        /\ specificity = termsWithoutWhere(selectorParts)
        /\ selectorParts = <<PartWhereAB>> => specificity = <<0, 0, 0, 0>>
        /\ selectorParts = <<PartIsMenu, PartWhereActive>> =>
              specificity[3] = 1 /\ specificity[4] = 0

C7_Witness ==
    /\ selectorParts = <<PartIsMenu, PartWhereActive>>
    /\ specificity = <<0, 0, 1, 0>>

(***************************************************************************)
(* The cascade claims speak about the candidate declarations of a          *)
(* property: the declarations of that property in the collected matches.   *)
(* A candidate is identified by its file and its position in that file.    *)
(***************************************************************************)

collectedMatches ==
    {[file |-> cssResults[i].filePath, match |-> cssResults[i].matches[j]] :
        <<i, j>> \in {<<i, j>> \in (1..Len(cssResults)) \X (1..MaxMatches + 1) :
                         j <= Len(cssResults[i].matches)}}

declares(match, q) == \E d \in 1..Len(match.content) : match.content[d].prop = q

\* the value a rule gives property q: its last declaration of q
declaredValue(match, q) ==
    LET last == CHOOSE d \in 1..Len(match.content) :
                   /\ match.content[d].prop = q
                   /\ \A e \in (d + 1)..Len(match.content) : match.content[e].prop # q
    IN  match.content[last].value

declaredProps ==
    {cm.match.content[d].prop :
        <<cm, d>> \in {<<cm, d>> \in collectedMatches \X (1..2) :
                          d <= Len(cm.match.content)}}

candidateIds(q) ==
    {<<cm.file, cm.match.startLine>> : cm \in {c \in collectedMatches : declares(c.match, q)}}

cid(entry) == <<entry.file, entry.startLine>>

carriesImportant(value) == "!important" \in {value[i] : i \in 1..Len(value)}

matchOf(id) == sheets[id[1]][id[2]]
idImportant(q, id) == carriesImportant(declaredValue(matchOf(id), q))
idSpecificity(id) == calculateSpecificity(String(matchOf(id).selector))

\* tuple a is lexicographically higher than tuple b, most significant term first
lexHigher(a, b) ==
    \E i \in 1..4 : a[i] > b[i] /\ \A j \in 1..(i - 1) : a[j] = b[j]

listed(f) == \E i \in 1..Len(linkedFiles) : linkedFiles[i] = f
linkIndex(f) == CHOOSE i \in 1..Len(linkedFiles) :
                   linkedFiles[i] = f /\ \A j \in (i + 1)..Len(linkedFiles) : linkedFiles[j] # f
arrivalIndex(f) == CHOOSE i \in 1..Len(cssResults) : cssResults[i].filePath = f

\* the candidates of q that equal the winner in importance and specificity
tiedWithWinner(q) ==
    LET w == cid(conflicts[q].winner)
    IN  {id \in candidateIds(q) :
            /\ idImportant(q, id) = idImportant(q, w)
            /\ idSpecificity(id) = idSpecificity(w)}

(***************************************************************************)
(* C1: for every property with two or more candidates of which at least    *)
(* one carries `!important`, the winner carries `!important`, whatever     *)
(* the specificities, the link order and the collection order.             *)
(***************************************************************************)
C1_ImportantWins ==
    pc = "done" =>
        \A q \in declaredProps :
            (/\ Cardinality(candidateIds(q)) >= 2
             /\ \E id \in candidateIds(q) : idImportant(q, id))
            => /\ q \in DOMAIN conflicts
               /\ cid(conflicts[q].winner) \in candidateIds(q)
               /\ idImportant(q, cid(conflicts[q].winner))

\* an `!important` winner of lower specificity, from a file linked and
\* collected before the file of a loser without `!important`
C1_Witness ==
    /\ pc = "done"
    /\ \E q \in DOMAIN conflicts :
          LET d == conflicts[q] IN
          /\ carriesImportant(d.winner.value)
          /\ \E i \in 1..Len(d.losers) :
                /\ ~carriesImportant(d.losers[i].value)
                /\ lexHigher(d.losers[i].specificity, d.winner.specificity)
                /\ listed(d.winner.file) /\ listed(d.losers[i].file)
                /\ linkIndex(d.losers[i].file) > linkIndex(d.winner.file)
                /\ arrivalIndex(d.losers[i].file) > arrivalIndex(d.winner.file)

(***************************************************************************)
(* C2: among candidates that agree on `!important`, a lexicographically    *)
(* higher specificity tuple always outranks a lower one, regardless of     *)
(* file order and collection order; the winner has the maximal             *)
(* specificity of the winning importance class.                            *)
(***************************************************************************)
C2_HigherSpecificityWins ==
    pc = "done" =>
        \A q \in DOMAIN conflicts :
            LET d == conflicts[q]
                w == cid(d.winner)
            IN  /\ \A id \in candidateIds(q) :
                      idImportant(q, id) = idImportant(q, w)
                      => ~lexHigher(idSpecificity(id), idSpecificity(w))
                /\ \A i, j \in 1..Len(d.losers) :
                      (/\ i < j
                       /\ idImportant(q, cid(d.losers[i])) = idImportant(q, cid(d.losers[j])))
                      => ~lexHigher(idSpecificity(cid(d.losers[i])),
                                    idSpecificity(cid(d.losers[j])))

\* the winner beats, on specificity alone, a loser of the same importance
\* whose file is linked later and collected later
C2_Witness ==
    /\ pc = "done"
    /\ \E q \in DOMAIN conflicts :
          LET d == conflicts[q] IN
          \E i \in 1..Len(d.losers) :
             /\ carriesImportant(d.losers[i].value) = carriesImportant(d.winner.value)
             /\ lexHigher(d.winner.specificity, d.losers[i].specificity)
             /\ listed(d.winner.file) /\ listed(d.losers[i].file)
             /\ linkIndex(d.losers[i].file) > linkIndex(d.winner.file)
             /\ arrivalIndex(d.losers[i].file) > arrivalIndex(d.winner.file)

(***************************************************************************)
(* C3: among candidates equal in `!important` status and in specificity,   *)
(* the winner is the one whose file appears latest in linkedFiles.css;     *)
(* among such candidates of the same file, the one declared latest.        *)
(***************************************************************************)
C3_LatestLinkedFileWins ==
    pc = "done" =>
        \A q \in DOMAIN conflicts :
            LET w == cid(conflicts[q].winner) IN
            \A id \in tiedWithWinner(q) :
                /\ (id[1] # w[1] /\ listed(id[1]))
                   => (listed(w[1]) /\ linkIndex(w[1]) > linkIndex(id[1]))
                /\ id[1] = w[1] => id[2] <= w[2]

\* the file order the engine gives a file: its position in linkedFiles.css,
\* or 999 for a file the list does not name
linkOrder(f) == IF listed(f) THEN linkIndex(f) - 1 ELSE UnlistedOrder

(* C3 as amended: among candidates equal in `!important` status and in     *)
(* specificity, the winner is one of greatest file order, where a file's   *)
(* order is its position in linkedFiles.css and 999 for a file absent from *)
(* the list; among such candidates of the same file, the one declared      *)
(* latest in that file wins.                                               *)
C3_GreatestFileOrderWins ==
    pc = "done" =>
        \A q \in DOMAIN conflicts :
            LET w == cid(conflicts[q].winner) IN
            \A id \in tiedWithWinner(q) :
                /\ linkOrder(w[1]) >= linkOrder(id[1])
                /\ id[1] = w[1] => id[2] <= w[2]

\* a tie in importance and specificity decided by link order against the
\* collection order, and a tie inside one file
C3_Witness ==
    /\ pc = "done"
    /\ \E q \in DOMAIN conflicts :
          LET w == cid(conflicts[q].winner) IN
          /\ \E id \in tiedWithWinner(q) :
                /\ id[1] # w[1]
                /\ listed(id[1]) /\ listed(w[1])
                /\ linkIndex(w[1]) > linkIndex(id[1])
                /\ arrivalIndex(w[1]) < arrivalIndex(id[1])
          /\ \E id \in tiedWithWinner(q) : id[1] = w[1] /\ id[2] < w[2]

(***************************************************************************)
(* C4: the winner of every property does not depend on the order in which  *)
(* the per-file results arrive: every permutation of the entries of        *)
(* cssResults yields the same winner for each property.                    *)
(***************************************************************************)
winnersOf(decisions) == [q \in DOMAIN decisions |-> cid(decisions[q].winner)]

C4_ArrivalOrderIrrelevant ==
    pc = "done" =>
        \A perm \in Permutations(1..Len(cssResults)) :
            winnersOf(analyzeConflicts([i \in 1..Len(cssResults) |-> cssResults[perm[i]]],
                                       linkedFiles))
            = winnersOf(conflicts)

(***************************************************************************)
(* C5: a decision is emitted for a property if and only if the property    *)
(* has two or more candidates; the decision has one winner and its losers  *)
(* are exactly the remaining candidates, each once, without the winner.    *)
(***************************************************************************)
C5_DecisionShape ==
    pc = "done" =>
        /\ DOMAIN conflicts = {q \in declaredProps : Cardinality(candidateIds(q)) >= 2}
        /\ \A q \in DOMAIN conflicts :
              LET d == conflicts[q]
                  loserIds == {cid(d.losers[i]) : i \in 1..Len(d.losers)}
              IN  /\ cid(d.winner) \in candidateIds(q)
                  /\ d.winner.prop = q
                  /\ loserIds = candidateIds(q) \ {cid(d.winner)}
                  /\ Len(d.losers) = Cardinality(candidateIds(q)) - 1
                  /\ \A i \in 1..Len(d.losers) : d.losers[i].prop = q

\* one property with a single candidate and no decision, another with
\* three candidates and a decision
C5_Witness ==
    /\ pc = "done"
    /\ \E q \in declaredProps : Cardinality(candidateIds(q)) = 1 /\ q \notin DOMAIN conflicts
    /\ \E q \in DOMAIN conflicts : Len(conflicts[q].losers) = 2

(***************************************************************************)
(* C6: the losers list is in reverse rank order, closest competitor        *)
(* first: losers[0] is ranked immediately below the winner and the last    *)
(* element is the weakest candidate.                                       *)
(***************************************************************************)
\* x ranks above y in the cascade order of the engine
outranks(q, x, y) ==
    LET ix == idImportant(q, x)
        iy == idImportant(q, y)
        sx == idSpecificity(x)
        sy == idSpecificity(y)
    IN  \/ ix /\ ~iy
        \/ ix = iy /\ lexHigher(sx, sy)
        \/ ix = iy /\ sx = sy /\ linkOrder(x[1]) > linkOrder(y[1])
        \/ /\ ix = iy /\ sx = sy /\ linkOrder(x[1]) = linkOrder(y[1])
           /\ \/ arrivalIndex(x[1]) > arrivalIndex(y[1])
              \/ x[1] = y[1] /\ x[2] > y[2]

C6_LosersClosestFirst ==
    pc = "done" =>
        \A q \in DOMAIN conflicts :
            LET d == conflicts[q] IN
            /\ \A i \in 1..Len(d.losers) : outranks(q, cid(d.winner), cid(d.losers[i]))
            /\ \A i, j \in 1..Len(d.losers) :
                  i < j => outranks(q, cid(d.losers[i]), cid(d.losers[j]))

(* C6 as amended: the losers list is in rank order, weakest first:         *)
(* losers[0] is the weakest candidate and the last element is the          *)
(* candidate ranked immediately below the winner.                          *)
C6_LosersWeakestFirst ==
    pc = "done" =>
        \A q \in DOMAIN conflicts :
            LET d == conflicts[q] IN
            /\ \A i \in 1..Len(d.losers) : outranks(q, cid(d.winner), cid(d.losers[i]))
            /\ \A i, j \in 1..Len(d.losers) :
                  i < j => outranks(q, cid(d.losers[j]), cid(d.losers[i]))

\* a decision with two losers of different rank
C6_Witness ==
    /\ pc = "done"
    /\ \E q \in DOMAIN conflicts :
          LET d == conflicts[q] IN
          /\ Len(d.losers) = 2
          /\ outranks(q, cid(d.losers[2]), cid(d.losers[1]))
          /\ outranks(q, cid(d.winner), cid(d.losers[2]))

\* the rules whose resolved selector has been computed
visitedRules == {k \in 1..walked : nodes[k].type = "rule"}

\* the comma-separated branches of a selector text, each without outer blanks
branchesOf(sel) == [i \in 1..Len(split(sel, ",")) |-> trim(split(sel, ",")[i])]

\* a rule nested directly in a rule, already visited, with its parent's result
nestedVisited == {k \in visitedRules : parentIsRule(nodes, k)}

(***************************************************************************)
(* C8: a resolved selector never contains an unresolved `&`, for a rule    *)
(* in any nesting structure (top level, nested in a rule, nested in an     *)
(* at-rule that sits inside a rule).                                       *)
(***************************************************************************)
C8_NoUnresolvedAmpersand ==
    \A k \in visitedRules : ~includes(resolved[k], "&")

(***************************************************************************)
(* C9: when a rule's selector contains `&` and the parent's resolved       *)
(* selector has n comma-separated branches, the result is the n selectors  *)
(* obtained by substituting every `&` with the i-th parent branch, in      *)
(* parent order; `.a, .b` with `&--x` gives `.a--x` and `.b--x`.           *)
(***************************************************************************)
C9_AmpersandFanOut ==
    \A k \in nestedVisited :
        includes(nodes[k].selector, "&") =>
            LET self     == nodes[k].selector
                branches == branchesOf(resolved[nodes[k].parent])
                out      == branchesOf(resolved[k])
                pieces   == [i \in 1..Len(branches) |->
                                replaceAll(self, "&", branches[i])]
            IN  /\ resolved[k] = join(pieces, CommaSpace)
                /\ ~includes(self, ",") =>
                       /\ Len(out) = Len(branches)
                       /\ \A i \in 1..Len(branches) : out[i] = pieces[i]
                /\ (resolved[nodes[k].parent] = SelAB /\ self = SelAmpX) =>
                       resolved[k] = <<".", "a", "-", "-", "x", ",", " ",
                                       ".", "b", "-", "-", "x">>

C9_Witness ==
    \E k \in nestedVisited :
        /\ nodes[k].selector = SelAmpX
        /\ Len(branchesOf(resolved[nodes[k].parent])) = 2
        /\ branchesOf(resolved[k]) =
               << <<".", "a", "-", "-", "x">>, <<".", "b", "-", "-", "x">> >>

(***************************************************************************)
(* C10: when a rule's selector contains no `&` and the rule has a parent   *)
(* rule, the result has one selector per parent branch: that branch, one   *)
(* space, then the child selector.                                         *)
(***************************************************************************)
C10_DescendantJoin ==
    \A k \in nestedVisited :
        ~includes(nodes[k].selector, "&") =>
            LET self     == nodes[k].selector
                branches == branchesOf(resolved[nodes[k].parent])
                pieces   == [i \in 1..Len(branches) |-> branches[i] \o <<" ">> \o self]
            IN  /\ resolved[k] = join(pieces, CommaSpace)
                /\ ~includes(self, ",") =>
                       /\ Len(branchesOf(resolved[k])) = Len(branches)
                       /\ \A i \in 1..Len(branches) :
                              branchesOf(resolved[k])[i] = pieces[i]

C10_Witness ==
    \E k \in nestedVisited :
        /\ nodes[k].selector = SelC
        /\ Len(branchesOf(resolved[nodes[k].parent])) = 2
        /\ resolved[k] = <<".", "a", " ", ".", "c", ",", " ", ".", "b", " ", ".", "c">>

(***************************************************************************)
(* Target matcher (css-analyzer.js): buildTargetSelectors,                 *)
(* expandModernPseudoClasses, checkRuleMatch.                              *)
(*                                                                         *)
(* A pattern of buildTargetSelectors is a regular expression built from a  *)
(* name made literal by escapeRegex; testing it is modelled by the search  *)
(* the regular expression performs on the text.                            *)
(***************************************************************************)

\* the characters `\s` matches
Whitespace == {" ", "\t", "\n", "\r", "\f"}

\* the text has the word w at position i
startsWithAt(s, i, w) ==
    /\ i >= 1
    /\ i + Len(w) - 1 <= Len(s)
    /\ SubSeq(s, i, i + Len(w) - 1) = w

\* the lookahead `(?=[\s,:.\[#]|$)` at position j
classLookahead(s, j) ==
    j > Len(s) \/ s[j] \in Whitespace \cup {",", ":", ".", "[", "#"}

\* the lookahead `(?=[\s,:.\[#>+~]|$)` at position j
tagLookahead(s, j) ==
    j > Len(s) \/ s[j] \in Whitespace \cup {",", ":", ".", "[", "#", ">", "+", "~"}

\* a prefix test: the name may run on into a longer name
prefixedNameTestNoLookahead(s, sigil, value) ==
    \E i \in 1..Len(s) : s[i] = sigil /\ startsWithAt(s, i + 1, value)

\* `\.name(?=[\s,:.\[#]|$)` and `#name(?=[\s,:.\[#]|$)`
prefixedNameTest(s, sigil, value) ==
    \E i \in 1..Len(s) :
        /\ s[i] = sigil
        /\ startsWithAt(s, i + 1, value)
        /\ classLookahead(s, i + 1 + Len(value))

\* `(?:^|[\s,>+~])tag(?=[\s,:.\[#>+~]|$)`
tagTest(s, value) ==
    \E i \in 1..(Len(s) + 1) :
        /\ i = 1 \/ s[i - 1] \in Whitespace \cup {",", ">", "+", "~"}
        /\ startsWithAt(s, i, value)
        /\ tagLookahead(s, i + Len(value))

\* `\[attr(?:[~|^$*]?=|\])`
dataAttrTest(s, value) ==
    \E i \in 1..Len(s) :
        /\ s[i] = "["
        /\ startsWithAt(s, i + 1, value)
        /\ LET j == i + 1 + Len(value)
           IN  \/ j <= Len(s) /\ s[j] \in {"=", "]"}
               \/ /\ j + 1 <= Len(s)
                  /\ s[j] \in {"~", "|", "^", "$", "*"}
                  /\ s[j + 1] = "="

patternTest(target, s) ==
    CASE target.type = "class"     -> prefixedNameTest(s, ".", target.value)
      [] target.type = "id"        -> prefixedNameTest(s, "#", target.value)
      [] target.type = "tag"       -> tagTest(s, target.value)
      [] target.type = "data-attr" -> dataAttrTest(s, target.value)

buildTargetSelectors(info) ==
    [i \in 1..Len(info.classes) |-> [type |-> "class", value |-> info.classes[i]]]
    \o [i \in 1..Len(info.ids) |-> [type |-> "id", value |-> info.ids[i]]]
    \o (IF Len(info.classes) > 0 \/ Len(info.ids) > 0
        THEN << [type |-> "tag", value |-> info.tagName] >>
        ELSE << >>)
    \o [i \in 1..Len(info.dataAttributes) |->
            [type |-> "data-attr", value |-> info.dataAttributes[i]]]

\* the functional pseudo-classes, in the order the loop takes them
pseudoFunctions ==
    << <<"i", "s">>, <<"w", "h", "e", "r", "e">>, <<"n", "o", "t">>, <<"h", "a", "s">> >>

\* position of the first c at or after position i, 0 when there is none
RECURSIVE indexOfChar(_, _, _)
indexOfChar(s, c, i) ==
    IF i > Len(s) THEN 0
    ELSE IF s[i] = c THEN i
    ELSE indexOfChar(s, c, i + 1)

\* the captures of the global regex `:func\(([^)]+)\)`, searching from i
RECURSIVE innerSelectors(_, _, _)
innerSelectors(s, func, i) ==
    IF i > Len(s) THEN << >>
    ELSE LET open == <<":">> \o func \o <<"(">>
             first == i + Len(open)
             close == indexOfChar(s, ")", first)
         IN  IF startsWithAt(s, i, open) /\ close > first
             THEN <<SubSeq(s, first, close - 1)>> \o innerSelectors(s, func, close + 1)
             ELSE innerSelectors(s, func, i + 1)

\* `expanded += ` ${innerSelectors}`` for each capture in turn
RECURSIVE appendCaptures(_, _)
appendCaptures(expanded, captures) ==
    IF captures = << >> THEN expanded
    ELSE appendCaptures(expanded \o <<" ">> \o Head(captures), Tail(captures))

\* the loop over pseudoFunctions, from the f-th function on
RECURSIVE expandFrom(_, _, _)
expandFrom(selector, expanded, f) ==
    IF f > Len(pseudoFunctions) THEN expanded
    ELSE expandFrom(selector,
                    appendCaptures(expanded,
                                   innerSelectors(selector, pseudoFunctions[f], 1)),
                    f + 1)

\* nothing is appended to the selector
expandModernPseudoClassesNoAppend(selector) == selector

expandModernPseudoClasses(selector) == expandFrom(selector, selector, 1)

\* the name of a target type, as the reason spells it
typeText(type) ==
    CASE type = "class"     -> <<"c", "l", "a", "s", "s">>
      [] type = "id"        -> <<"i", "d">>
      [] type = "tag"       -> <<"t", "a", "g">>
      [] type = "data-attr" -> <<"d", "a", "t", "a", "-", "a", "t", "t", "r">>

\* the template `${target.type}: ${target.value}`
reasonText(target) == typeText(target.type) \o <<":", " ">> \o target.value

checkRuleMatch(ruleSelector, targetSelectors) ==
    LET expandedSelector == expandModernPseudoClasses(ruleSelector)
        hit == SelectSeq(targetSelectors,
                         LAMBDA t : \/ patternTest(t, ruleSelector)
                                    \/ patternTest(t, expandedSelector))
        matchedOn == [i \in 1..Len(hit) |-> reasonText(hit[i])]
    IN  [matches |-> Len(matchedOn) > 0, matchedOn |-> matchedOn]

(***************************************************************************)
(* The rules the matcher is run on: a target identity and the selector of  *)
(* one rule, written part by part.                                         *)
(***************************************************************************)
MaxRuleParts == 3

ClassBtn == <<"b", "t", "n">>
ClassX == <<"x">>

NoTarget == [classes |-> << >>, ids |-> << >>, tagName |-> <<"a">>,
             dataAttributes |-> << >>]
TargetBtn == [classes |-> <<ClassBtn>>, ids |-> << >>, tagName |-> <<"a">>,
              dataAttributes |-> << >>]
TargetBtnX == [classes |-> <<ClassBtn, ClassX>>, ids |-> << <<"i">> >>,
               tagName |-> <<"a">>, dataAttributes |-> << <<"d">> >>]
TargetInfos == {NoTarget, TargetBtn, TargetBtnX}

RuleBtn      == <<".", "b", "t", "n">>
RuleGroup    == <<"-", "g", "r", "o", "u", "p">>
RuleIsOpen   == <<".", "i", "s", "-", "o", "p", "e", "n">>
RuleHover    == <<":", "h", "o", "v", "e", "r">>
RuleBefore   == <<":", ":", "b", "e", "f", "o", "r", "e">>
RuleIs       == <<":", "i", "s", "(">>
RuleIsNotX   == <<":", "i", "s", "(", ":", "n", "o", "t", "(", ".", "x", ")", ",", " ">>
RuleClose    == <<")">>
RuleChild    == <<">", "a">>
RuleData     == <<"[", "d", "=", "v", "]", "#", "i">>

RuleParts == {RuleBtn, RuleGroup, RuleIsOpen, RuleHover, RuleBefore, RuleIs,
              RuleIsNotX, RuleClose, RuleChild, RuleData}

ruleText == join(ruleParts, << >>)

\* a part is appended to the selector of the rule
WriteRulePart(part) ==
    /\ matchInfo = << >>
    /\ Len(ruleParts) < MaxRuleParts
    /\ ruleParts' = Append(ruleParts, part)
    /\ UNCHANGED <<targetInfo, matchInfo>>
    /\ UNCHANGED exceptMatcher

\* walkRules hands the selector of the rule to checkRuleMatch
CheckRuleMatch ==
    /\ matchInfo = << >>
    /\ matchInfo' = <<checkRuleMatch(ruleText, buildTargetSelectors(targetInfo))>>
    /\ UNCHANGED <<targetInfo, ruleParts>>
    /\ UNCHANGED exceptMatcher

MatchInit ==
    /\ targetInfo \in TargetInfos
    /\ ruleParts = << >>
    /\ matchInfo = << >>
    /\ GhostIdle
    /\ CacheIdle
    /\ ResolverIdle
    /\ FetcherIdle
    /\ CascadeIdle
    /\ SpecificityIdle

MatchNext ==
    \/ \E part \in RuleParts : WriteRulePart(part)
    \/ CheckRuleMatch

SpecMatch == MatchInit /\ [][MatchNext]_vars

\* the rule whose selector has been handed to checkRuleMatch, and its answer
matched == matchInfo # << >>
matchedOnOf == matchInfo[1].matchedOn

\* the answer carries the reason `class: c`
classReason(c) == <<"c", "l", "a", "s", "s", ":", " ">> \o c
reportsClass(c) == \E i \in 1..Len(matchedOnOf) : matchedOnOf[i] = classReason(c)

targetClasses == {targetInfo.classes[i] : i \in 1..Len(targetInfo.classes)}

(***************************************************************************)
(* C11: for every class c of the target identity, checkRuleMatch reports   *)
(* the reason `class: c` for a selector exactly when the selector, in its  *)
(* original or its pseudo-class-expanded text, contains `.c` immediately   *)
(* followed by the end of the text or by whitespace, `,`, `:`, `.`, `[` or *)
(* `#`.  So `.btn-group` alone never matches the class `btn`, while        *)
(* `.btn.is-open`, `.btn:hover` and `.btn::before` do.                     *)
(***************************************************************************)
\* the text splits into  before . c after  with after empty or led by a delimiter
hasDelimitedClass(text, c) ==
    \E k \in 0..Len(text) :
        /\ k + 1 + Len(c) <= Len(text)
        /\ SubSeq(text, k + 1, k + 1 + Len(c)) = <<".">> \o c
        /\ \/ k + 1 + Len(c) = Len(text)
           \/ text[k + 2 + Len(c)] \in {" ", "\t", "\n", "\r", "\f", ",", ":", ".", "[", "#"}

C11_ClassDelimited ==
    matched =>
       /\ \A c \in targetClasses :
             reportsClass(c) <=>
                \/ hasDelimitedClass(ruleText, c)
                \/ hasDelimitedClass(expandModernPseudoClasses(ruleText), c)
       /\ ClassBtn \in targetClasses =>
             /\ ruleText = RuleBtn \o RuleGroup => ~reportsClass(ClassBtn)
             /\ ruleText \in {RuleBtn \o RuleIsOpen, RuleBtn \o RuleHover,
                              RuleBtn \o RuleBefore} => reportsClass(ClassBtn)

\* `.btn-group` was matched against a target of class btn, and `.btn:hover` can be
C11_Witness ==
    /\ matched
    /\ ClassBtn \in targetClasses
    /\ ruleText = RuleBtn \o RuleGroup \o RuleHover
    /\ ~reportsClass(ClassBtn)

(***************************************************************************)
(* C12 (as stated): a target class that occurs in a selector only inside   *)
(* the argument list of `:is()`, `:where()`, `:not()` or `:has()` is still *)
(* matched, with reason `class: c`, also when the argument contains        *)
(* another functional pseudo-class, as in `:is(:not(.x), .c)`.             *)
(***************************************************************************)
\* the characters that end a class name in selector text
NameEnd == {" ", "\t", "\n", "\r", "\f", ",", ":", ".", "[", "#", "(", ")", ">", "+", "~"}

\* the positions where the class token `.c` stands in the text
classTokenAt(text, c) ==
    {i \in 1..Len(text) :
        /\ text[i] = "."
        /\ startsWithAt(text, i + 1, c)
        /\ i + Len(c) = Len(text) \/ text[i + 1 + Len(c)] \in NameEnd}

\* number of parentheses open before position i
RECURSIVE parenDepth(_, _)
parenDepth(text, i) ==
    IF i <= 1 THEN 0
    ELSE parenDepth(text, i - 1)
           + (IF text[i - 1] = "(" THEN 1 ELSE IF text[i - 1] = ")" THEN -1 ELSE 0)

wellParenthesized(text) ==
    /\ \A i \in 1..(Len(text) + 1) : parenDepth(text, i) >= 0
    /\ parenDepth(text, Len(text) + 1) = 0

onlyInFunctionalArgument(text, c) ==
    /\ wellParenthesized(text)
    /\ classTokenAt(text, c) # {}
    /\ \A i \in classTokenAt(text, c) : parenDepth(text, i) >= 1

C12_FunctionalArgumentMatched ==
    matched =>
       \A c \in targetClasses :
           onlyInFunctionalArgument(ruleText, c) => reportsClass(c)

(***************************************************************************)
(* C12 (amended): a target class in the argument list of `:is()`,          *)
(* `:where()`, `:not()` or `:has()` is matched, with reason `class: c`,    *)
(* whenever no closing parenthesis stands between the opening parenthesis  *)
(* of the function and the class name, and the class name is immediately   *)
(* followed by a closing parenthesis, whitespace, `,`, `:`, `.`, `[` or    *)
(* `#`.  In `:is(:not(.x), .c)` the class c is not matched.                *)
(***************************************************************************)
\* `.c` stands in the argument of a function, before its first closing parenthesis
inFirstArgumentRun(text, c) ==
    \E f \in 1..Len(pseudoFunctions), j \in 1..Len(text) :
        LET open == <<":">> \o pseudoFunctions[f] \o <<"(">>
            first == j + Len(open)
        IN  /\ startsWithAt(text, j, open)
            /\ \E close \in first..Len(text) :
                  /\ text[close] = ")"
                  /\ \A m \in first..(close - 1) : text[m] # ")"
                  /\ \E i \in first..(close - 1) :
                        /\ text[i] = "."
                        /\ startsWithAt(text, i + 1, c)
                        /\ \/ i + 1 + Len(c) = close
                           \/ text[i + 1 + Len(c)] \in
                                 {" ", "\t", "\n", "\r", "\f", ",", ":", ".", "[", "#"}

C12_FirstArgumentRunMatched ==
    matched =>
       /\ \A c \in targetClasses :
             inFirstArgumentRun(ruleText, c) => reportsClass(c)
       /\ ClassBtn \in targetClasses /\ ruleText = RuleIsNotX \o RuleBtn \o RuleClose
             => ~reportsClass(ClassBtn)

\* `:is(.btn)` was matched against a target of class btn
C12_Witness ==
    /\ matched
    /\ ClassBtn \in targetClasses
    /\ ruleText = RuleIs \o RuleBtn \o RuleClose
    /\ reportsClass(ClassBtn)

(***************************************************************************)
(* Ghost class detector (ghost-detector.js): detectGhostClasses.           *)
(***************************************************************************)

\* String.prototype.includes for a needle of any length
includesText(s, w) == \E i \in 1..(Len(s) + 1) : startsWithAt(s, i, w)

\* String.prototype.replace(w, ''): the first occurrence of w is removed
RECURSIVE removeFirstFrom(_, _, _)
removeFirstFrom(s, w, i) ==
    IF i + Len(w) - 1 > Len(s) THEN s
    ELSE IF startsWithAt(s, i, w)
         THEN SubSeq(s, 1, i - 1) \o SubSeq(s, i + Len(w), Len(s))
         ELSE removeFirstFrom(s, w, i + 1)

removeFirst(s, w) == removeFirstFrom(s, w, 1)

\* Set.prototype.add on a set kept in insertion order
setAdd(set, x) ==
    IF \E i \in 1..Len(set) : set[i] = x THEN set ELSE Append(set, x)

setHas(set, x) == \E i \in 1..Len(set) : set[i] = x

ReasonClassColon == <<"c", "l", "a", "s", "s", ":">>
ReasonClassColonSpace == <<"c", "l", "a", "s", "s", ":", " ">>

\* processMatchedOn: every item that starts with `class:` defines `.` + its name
RECURSIVE processMatchedOn(_, _)
processMatchedOn(definedClasses, items) ==
    IF items = << >> THEN definedClasses
    ELSE LET item == Head(items)
             name == trim(removeFirst(removeFirst(item, ReasonClassColonSpace),
                                      ReasonClassColon))
         IN  processMatchedOn(
                 IF startsWithAt(item, 1, ReasonClassColon)
                 THEN setAdd(definedClasses, <<".">> \o name)
                 ELSE definedClasses,
                 Tail(items))

\* for (const cls of classes) if (text.includes(cls)) definedClasses.add(cls)
RECURSIVE addContained(_, _, _)
addContained(definedClasses, text, classes) ==
    IF classes = << >> THEN definedClasses
    ELSE addContained(IF includesText(text, Head(classes))
                      THEN setAdd(definedClasses, Head(classes))
                      ELSE definedClasses,
                      text, Tail(classes))

\* the loop over the matches of one result
RECURSIVE processMatches(_, _, _)
processMatches(definedClasses, matches, classes) ==
    IF matches = << >> THEN definedClasses
    ELSE processMatches(
             addContained(processMatchedOn(definedClasses, Head(matches).matchedOn),
                          Head(matches).selector, classes),
             Tail(matches), classes)

\* the loop over cssResults, and the one over cssLibraryResults
RECURSIVE processResults(_, _, _)
processResults(definedClasses, results, classes) ==
    IF results = << >> THEN definedClasses
    ELSE processResults(processMatches(definedClasses, Head(results).matches, classes),
                        Tail(results), classes)

\* the loop over inlineStyles
RECURSIVE processInlineStyles(_, _, _)
processInlineStyles(definedClasses, styles, classes) ==
    IF styles = << >> THEN definedClasses
    ELSE processInlineStyles(addContained(definedClasses, Head(styles).content, classes),
                             Tail(styles), classes)

\* the table of utility, framework and state conventions; an alternation is
\* written out, `\d+` is the flag digits
IGNORED_PATTERNS == <<
    [prefix |-> <<"p", "-">>, digits |-> TRUE, suffix |-> <<>>],
    [prefix |-> <<"p", "x", "-">>, digits |-> TRUE, suffix |-> <<>>],
    [prefix |-> <<"p", "y", "-">>, digits |-> TRUE, suffix |-> <<>>],
    [prefix |-> <<"p", "t", "-">>, digits |-> TRUE, suffix |-> <<>>],
    [prefix |-> <<"p", "r", "-">>, digits |-> TRUE, suffix |-> <<>>],
    [prefix |-> <<"p", "b", "-">>, digits |-> TRUE, suffix |-> <<>>],
    [prefix |-> <<"p", "l", "-">>, digits |-> TRUE, suffix |-> <<>>],
    [prefix |-> <<"m", "-">>, digits |-> TRUE, suffix |-> <<>>],
    [prefix |-> <<"m", "x", "-">>, digits |-> TRUE, suffix |-> <<>>],
    [prefix |-> <<"m", "y", "-">>, digits |-> TRUE, suffix |-> <<>>],
    [prefix |-> <<"m", "t", "-">>, digits |-> TRUE, suffix |-> <<>>],
    [prefix |-> <<"m", "r", "-">>, digits |-> TRUE, suffix |-> <<>>],
    [prefix |-> <<"m", "b", "-">>, digits |-> TRUE, suffix |-> <<>>],
    [prefix |-> <<"m", "l", "-">>, digits |-> TRUE, suffix |-> <<>>],
    [prefix |-> <<"t", "e", "x", "t", "-", "x", "s">>, digits |-> FALSE, suffix |-> <<>>],
    [prefix |-> <<"t", "e", "x", "t", "-", "s", "m">>, digits |-> FALSE, suffix |-> <<>>],
    [prefix |-> <<"t", "e", "x", "t", "-", "b", "a", "s", "e">>, digits |-> FALSE, suffix |-> <<>>],
    [prefix |-> <<"t", "e", "x", "t", "-", "l", "g">>, digits |-> FALSE, suffix |-> <<>>],
    [prefix |-> <<"t", "e", "x", "t", "-", "x", "l">>, digits |-> FALSE, suffix |-> <<>>],
    [prefix |-> <<"t", "e", "x", "t", "-">>, digits |-> TRUE, suffix |-> <<"x", "l">>],
    [prefix |-> <<"t", "e", "x", "t", "-", "b", "l", "a", "c", "k">>, digits |-> FALSE, suffix |-> <<>>],
    [prefix |-> <<"t", "e", "x", "t", "-", "w", "h", "i", "t", "e">>, digits |-> FALSE, suffix |-> <<>>],
    [prefix |-> <<"t", "e", "x", "t", "-", "g", "r", "a", "y">>, digits |-> FALSE, suffix |-> <<>>],
    [prefix |-> <<"t", "e", "x", "t", "-", "r", "e", "d">>, digits |-> FALSE, suffix |-> <<>>],
    [prefix |-> <<"t", "e", "x", "t", "-", "b", "l", "u", "e">>, digits |-> FALSE, suffix |-> <<>>],
    [prefix |-> <<"t", "e", "x", "t", "-", "g", "r", "e", "e", "n">>, digits |-> FALSE, suffix |-> <<>>],
    [prefix |-> <<"t", "e", "x", "t", "-", "y", "e", "l", "l", "o", "w">>, digits |-> FALSE, suffix |-> <<>>],
    [prefix |-> <<"t", "e", "x", "t", "-", "i", "n", "d", "i", "g", "o">>, digits |-> FALSE, suffix |-> <<>>],
    [prefix |-> <<"t", "e", "x", "t", "-", "p", "u", "r", "p", "l", "e">>, digits |-> FALSE, suffix |-> <<>>],
    [prefix |-> <<"t", "e", "x", "t", "-", "p", "i", "n", "k">>, digits |-> FALSE, suffix |-> <<>>],
    [prefix |-> <<"b", "g", "-", "b", "l", "a", "c", "k">>, digits |-> FALSE, suffix |-> <<>>],
    [prefix |-> <<"b", "g", "-", "w", "h", "i", "t", "e">>, digits |-> FALSE, suffix |-> <<>>],
    [prefix |-> <<"b", "g", "-", "g", "r", "a", "y">>, digits |-> FALSE, suffix |-> <<>>],
    [prefix |-> <<"b", "g", "-", "r", "e", "d">>, digits |-> FALSE, suffix |-> <<>>],
    [prefix |-> <<"b", "g", "-", "b", "l", "u", "e">>, digits |-> FALSE, suffix |-> <<>>],
    [prefix |-> <<"b", "g", "-", "g", "r", "e", "e", "n">>, digits |-> FALSE, suffix |-> <<>>],
    [prefix |-> <<"b", "g", "-", "y", "e", "l", "l", "o", "w">>, digits |-> FALSE, suffix |-> <<>>],
    [prefix |-> <<"b", "g", "-", "i", "n", "d", "i", "g", "o">>, digits |-> FALSE, suffix |-> <<>>],
    [prefix |-> <<"b", "g", "-", "p", "u", "r", "p", "l", "e">>, digits |-> FALSE, suffix |-> <<>>],
    [prefix |-> <<"b", "g", "-", "p", "i", "n", "k">>, digits |-> FALSE, suffix |-> <<>>],
    [prefix |-> <<"f", "o", "n", "t", "-", "s", "a", "n", "s">>, digits |-> FALSE, suffix |-> <<>>],
    [prefix |-> <<"f", "o", "n", "t", "-", "s", "e", "r", "i", "f">>, digits |-> FALSE, suffix |-> <<>>],
    [prefix |-> <<"f", "o", "n", "t", "-", "m", "o", "n", "o">>, digits |-> FALSE, suffix |-> <<>>],
    [prefix |-> <<"f", "o", "n", "t", "-", "b", "o", "l", "d">>, digits |-> FALSE, suffix |-> <<>>],
    [prefix |-> <<"f", "o", "n", "t", "-", "m", "e", "d", "i", "u", "m">>, digits |-> FALSE, suffix |-> <<>>],
    [prefix |-> <<"f", "o", "n", "t", "-", "l", "i", "g", "h", "t">>, digits |-> FALSE, suffix |-> <<>>],
    [prefix |-> <<"f", "l", "e", "x">>, digits |-> FALSE, suffix |-> <<>>],
    [prefix |-> <<"g", "r", "i", "d">>, digits |-> FALSE, suffix |-> <<>>],
    [prefix |-> <<"b", "l", "o", "c", "k">>, digits |-> FALSE, suffix |-> <<>>],
    [prefix |-> <<"h", "i", "d", "d", "e", "n">>, digits |-> FALSE, suffix |-> <<>>],
    [prefix |-> <<"i", "n", "l", "i", "n", "e">>, digits |-> FALSE, suffix |-> <<>>],
    [prefix |-> <<"w", "-">>, digits |-> TRUE, suffix |-> <<>>],
    [prefix |-> <<"h", "-">>, digits |-> TRUE, suffix |-> <<>>],
    [prefix |-> <<"w", "-", "f", "u", "l", "l">>, digits |-> FALSE, suffix |-> <<>>],
    [prefix |-> <<"h", "-", "f", "u", "l", "l">>, digits |-> FALSE, suffix |-> <<>>],
    [prefix |-> <<"m", "i", "n", "-", "w">>, digits |-> FALSE, suffix |-> <<>>],
    [prefix |-> <<"m", "a", "x", "-", "w">>, digits |-> FALSE, suffix |-> <<>>],
    [prefix |-> <<"b", "o", "r", "d", "e", "r">>, digits |-> FALSE, suffix |-> <<>>],
    [prefix |-> <<"r", "o", "u", "n", "d", "e", "d">>, digits |-> FALSE, suffix |-> <<>>],
    [prefix |-> <<"s", "h", "a", "d", "o", "w">>, digits |-> FALSE, suffix |-> <<>>],
    [prefix |-> <<"i", "t", "e", "m", "s", "-">>, digits |-> FALSE, suffix |-> <<>>],
    [prefix |-> <<"j", "u", "s", "t", "i", "f", "y", "-">>, digits |-> FALSE, suffix |-> <<>>],
    [prefix |-> <<"p", "l", "a", "c", "e", "-">>, digits |-> FALSE, suffix |-> <<>>],
    [prefix |-> <<"g", "a", "p", "-">>, digits |-> FALSE, suffix |-> <<>>],
    [prefix |-> <<"a", "b", "s", "o", "l", "u", "t", "e">>, digits |-> FALSE, suffix |-> <<>>],
    [prefix |-> <<"r", "e", "l", "a", "t", "i", "v", "e">>, digits |-> FALSE, suffix |-> <<>>],
    [prefix |-> <<"f", "i", "x", "e", "d">>, digits |-> FALSE, suffix |-> <<>>],
    [prefix |-> <<"s", "t", "i", "c", "k", "y">>, digits |-> FALSE, suffix |-> <<>>],
    [prefix |-> <<"t", "o", "p", "-">>, digits |-> FALSE, suffix |-> <<>>],
    [prefix |-> <<"b", "o", "t", "t", "o", "m", "-">>, digits |-> FALSE, suffix |-> <<>>],
    [prefix |-> <<"l", "e", "f", "t", "-">>, digits |-> FALSE, suffix |-> <<>>],
    [prefix |-> <<"r", "i", "g", "h", "t", "-">>, digits |-> FALSE, suffix |-> <<>>],
    [prefix |-> <<"z", "-">>, digits |-> FALSE, suffix |-> <<>>],
    [prefix |-> <<"o", "p", "a", "c", "i", "t", "y", "-">>, digits |-> FALSE, suffix |-> <<>>],
    [prefix |-> <<"c", "u", "r", "s", "o", "r", "-">>, digits |-> FALSE, suffix |-> <<>>],
    [prefix |-> <<"p", "o", "i", "n", "t", "e", "r", "-", "e", "v", "e", "n", "t", "s", "-">>, digits |-> FALSE, suffix |-> <<>>],
    [prefix |-> <<"t", "r", "a", "n", "s", "i", "t", "i", "o", "n">>, digits |-> FALSE, suffix |-> <<>>],
    [prefix |-> <<"d", "u", "r", "a", "t", "i", "o", "n", "-">>, digits |-> FALSE, suffix |-> <<>>],
    [prefix |-> <<"e", "a", "s", "e", "-">>, digits |-> FALSE, suffix |-> <<>>],
    [prefix |-> <<"h", "o", "v", "e", "r", ":">>, digits |-> FALSE, suffix |-> <<>>],
    [prefix |-> <<"f", "o", "c", "u", "s", ":">>, digits |-> FALSE, suffix |-> <<>>],
    [prefix |-> <<"a", "c", "t", "i", "v", "e", ":">>, digits |-> FALSE, suffix |-> <<>>],
    [prefix |-> <<"g", "r", "o", "u", "p", "-", "h", "o", "v", "e", "r", ":">>, digits |-> FALSE, suffix |-> <<>>],
    [prefix |-> <<"s", "m", ":">>, digits |-> FALSE, suffix |-> <<>>],
    [prefix |-> <<"m", "d", ":">>, digits |-> FALSE, suffix |-> <<>>],
    [prefix |-> <<"l", "g", ":">>, digits |-> FALSE, suffix |-> <<>>],
    [prefix |-> <<"x", "l", ":">>, digits |-> FALSE, suffix |-> <<>>],
    [prefix |-> <<"2", "x", "l", ":">>, digits |-> FALSE, suffix |-> <<>>],
    [prefix |-> <<"c", "o", "l", "-">>, digits |-> FALSE, suffix |-> <<>>],
    [prefix |-> <<"r", "o", "w">>, digits |-> FALSE, suffix |-> <<>>],
    [prefix |-> <<"c", "o", "n", "t", "a", "i", "n", "e", "r">>, digits |-> FALSE, suffix |-> <<>>],
    [prefix |-> <<"b", "t", "n", "-">>, digits |-> FALSE, suffix |-> <<>>],
    [prefix |-> <<"a", "l", "e", "r", "t", "-">>, digits |-> FALSE, suffix |-> <<>>],
    [prefix |-> <<"c", "a", "r", "d", "-">>, digits |-> FALSE, suffix |-> <<>>],
    [prefix |-> <<"n", "a", "v", "b", "a", "r", "-">>, digits |-> FALSE, suffix |-> <<>>],
    [prefix |-> <<"n", "a", "v", "-">>, digits |-> FALSE, suffix |-> <<>>],
    [prefix |-> <<"d", "r", "o", "p", "d", "o", "w", "n", "-">>, digits |-> FALSE, suffix |-> <<>>],
    [prefix |-> <<"m", "o", "d", "a", "l", "-">>, digits |-> FALSE, suffix |-> <<>>],
    [prefix |-> <<"t", "a", "b", "-">>, digits |-> FALSE, suffix |-> <<>>],
    [prefix |-> <<"f", "o", "r", "m", "-">>, digits |-> FALSE, suffix |-> <<>>],
    [prefix |-> <<"f", "a", "-">>, digits |-> FALSE, suffix |-> <<>>],
    [prefix |-> <<"i", "c", "o", "n", "-">>, digits |-> FALSE, suffix |-> <<>>],
    [prefix |-> <<"m", "a", "t", "e", "r", "i", "a", "l", "-">>, digits |-> FALSE, suffix |-> <<>>],
    [prefix |-> <<"b", "i", "-">>, digits |-> FALSE, suffix |-> <<>>],
    [prefix |-> <<"r", "i", "-">>, digits |-> FALSE, suffix |-> <<>>],
    [prefix |-> <<"b", "x", "-">>, digits |-> FALSE, suffix |-> <<>>],
    [prefix |-> <<"j", "s", "-">>, digits |-> FALSE, suffix |-> <<>>],
    [prefix |-> <<"i", "s", "-">>, digits |-> FALSE, suffix |-> <<>>],
    [prefix |-> <<"h", "a", "s", "-">>, digits |-> FALSE, suffix |-> <<>>],
    [prefix |-> <<"a", "c", "t", "i", "v", "e">>, digits |-> FALSE, suffix |-> <<>>],
    [prefix |-> <<"o", "p", "e", "n">>, digits |-> FALSE, suffix |-> <<>>],
    [prefix |-> <<"s", "h", "o", "w">>, digits |-> FALSE, suffix |-> <<>>],
    [prefix |-> <<"v", "i", "s", "i", "b", "l", "e">>, digits |-> FALSE, suffix |-> <<>>],
    [prefix |-> <<"a", "n", "i", "m", "a", "t", "e", "_", "_">>, digits |-> FALSE, suffix |-> <<>>],
    [prefix |-> <<"a", "o", "s", "-">>, digits |-> FALSE, suffix |-> <<>>],
    [prefix |-> <<"f", "a", "d", "e">>, digits |-> FALSE, suffix |-> <<>>],
    [prefix |-> <<"s", "l", "i", "d", "e">>, digits |-> FALSE, suffix |-> <<>>],
    [prefix |-> <<"z", "o", "o", "m">>, digits |-> FALSE, suffix |-> <<>>],
    [prefix |-> <<"u", "-">>, digits |-> FALSE, suffix |-> <<>>],
    [prefix |-> <<"u", "t", "i", "l", "-">>, digits |-> FALSE, suffix |-> <<>>],
    [prefix |-> <<"h", "e", "l", "p", "e", "r", "-">>, digits |-> FALSE, suffix |-> <<>>]
>>

Digits == {"0", "1", "2", "3", "4", "5", "6", "7", "8", "9"}

\* the position after the digits that start at position i
RECURSIVE digitsEnd(_, _)
digitsEnd(s, i) ==
    IF i <= Len(s) /\ s[i] \in Digits THEN digitsEnd(s, i + 1) ELSE i

\* pattern.test(cleanName)
ignoredPatternTest(pattern, cleanName) ==
    /\ startsWithAt(cleanName, 1, pattern.prefix)
    /\ pattern.digits =>
          LET from == Len(pattern.prefix) + 1
              to == digitsEnd(cleanName, from)
          IN  to > from /\ startsWithAt(cleanName, to, pattern.suffix)

isUtility(cleanName) ==
    \E k \in 1..Len(IGNORED_PATTERNS) : ignoredPatternTest(IGNORED_PATTERNS[k], cleanName)

startsWithDot(cls) == Len(cls) > 0 /\ cls[1] = "."

\* the filter without the allowlist
isGhostNoAllowlist(cls, definedClasses) ==
    LET className == IF startsWithDot(cls) THEN cls ELSE <<".">> \o cls
    IN  ~(setHas(definedClasses, className) \/ setHas(definedClasses, cls))

\* the predicate of classes.filter
isGhost(cls, definedClasses) ==
    LET className == IF startsWithDot(cls) THEN cls ELSE <<".">> \o cls
        cleanName == IF startsWithDot(cls) THEN SubSeq(cls, 2, Len(cls)) ELSE cls
    IN  IF setHas(definedClasses, className) \/ setHas(definedClasses, cls) THEN FALSE
        ELSE IF isUtility(cleanName) THEN FALSE
        ELSE TRUE

detectGhostClasses(info, results, libraryResults, styles) ==
    LET classes == info.classes
        definedClasses ==
            processInlineStyles(
                processResults(processResults(<< >>, results, classes),
                               libraryResults, classes),
                styles, classes)
        ghostClasses == SelectSeq(classes, LAMBDA cls : isGhost(cls, definedClasses))
    IN  IF Len(classes) = 0
        THEN [ghostClasses |-> << >>, definedClasses |-> << >>, totalClasses |-> 0]
        ELSE [ghostClasses |-> ghostClasses,
              definedClasses |-> definedClasses,
              totalClasses |-> Len(classes),
              hasGhosts |-> Len(ghostClasses) > 0]

(***************************************************************************)
(* The reports the detector is asked for: a target identity, the rules the *)
(* matcher found for it in the project's and the libraries' stylesheets,   *)
(* and inline style blocks.                                                *)
(***************************************************************************)
MaxStyles == 3

ClassFlex == <<"f", "l", "e", "x">>
ClassP4 == <<"p", "-", "4">>
ClassTextBlue == <<"t", "e", "x", "t", "-", "b", "l", "u", "e", "-", "5", "0", "0">>
ClassMyMissing == <<"m", "y", "-", "m", "i", "s", "s", "i", "n", "g", "-", "c", "l", "a", "s", "s">>
ClassButtonModule == <<"B", "u", "t", "t", "o", "n", "_", "p", "r", "i", "m", "a", "r", "y", "_", "a", "8", "f", "3", "d">>
ClassMyCustom == <<"m", "y", "-", "c", "u", "s", "t", "o", "m", "-", "c", "l", "a", "s", "s">>
ClassStyled == <<"s", "c", "-", "b", "d", "V", "a", "J", "a">>
ClassEmotion == <<"e", "m", "o", "t", "i", "o", "n", "-", "0">>
ClassCssHash == <<"c", "s", "s", "-", "1", "x", "2", "y", "3", "z">>
ClassActualMissing == <<"a", "c", "t", "u", "a", "l", "-", "m", "i", "s", "s", "i", "n", "g">>
ClassBtnModule == <<"B", "t", "n", "_", "p", "r", "i", "m", "a", "r", "y", "_", "a", "1", "b", "2", "c">>
ClassJss == <<"j", "s", "s", "0">>
ClassIsActive == <<"i", "s", "-", "a", "c", "t", "i", "v", "e">>
ClassDotFoo == <<".", "f", "o", "o">>
ClassFoo == <<"f", "o", "o">>
ClassMenu == <<"m", "e", "n", "u">>
ClassMenuItem == <<"m", "e", "n", "u", "-", "i", "t", "e", "m">>
TagDiv == <<"d", "i", "v">>
SelMenuItem == <<".", "m", "e", "n", "u", "-", "i", "t", "e", "m">>
SelMenuHover == <<".", "m", "e", "n", "u", ":", "h", "o", "v", "e", "r">>
SelIdFoo == <<"#", "f", "o", "o">>
SelFlex == <<".", "f", "l", "e", "x">>
InlineFlex == <<"d", "i", "s", "p", "l", "a", "y", ":", " ", "f", "l", "e", "x">>
InlineRed == <<"c", "o", "l", "o", "r", ":", " ", "r", "e", "d">>

identity(classes, ids) ==
    [classes |-> classes, ids |-> ids, tagName |-> TagDiv, dataAttributes |-> << >>]

GhostTargets == {
    identity(<< >>, << >>),
    identity(<<ClassFlex, ClassP4, ClassTextBlue, ClassMyMissing>>, << >>),
    identity(<<ClassButtonModule, ClassFlex, ClassMyCustom>>, << >>),
    identity(<<ClassStyled, ClassEmotion, ClassCssHash, ClassActualMissing>>, << >>),
    identity(<<ClassBtnModule, ClassJss, ClassIsActive>>, << >>),
    identity(<<ClassDotFoo, ClassFoo>>, <<ClassFoo>>),
    identity(<<ClassMenu, ClassMenuItem>>, << >>) }

GhostSelectors == {SelMenuItem, SelMenuHover, SelIdFoo, SelFlex}
InlineContents == {InlineFlex, InlineRed}

stylesSeen == Len(projectMatches) + Len(libraryMatches) + Len(inlineStyles)

\* the match analyzeCSS records for a rule of this selector
matchOfRule(sel) ==
    [selector |-> sel,
     matchedOn |-> checkRuleMatch(sel, buildTargetSelectors(targetInfo)).matchedOn]

ruleMatches(sel) == checkRuleMatch(sel, buildTargetSelectors(targetInfo)).matches

\* a project stylesheet holds a rule that matches the target
FindProjectMatch(sel) ==
    /\ ghostData = << >>
    /\ stylesSeen < MaxStyles
    /\ ruleMatches(sel)
    /\ projectMatches' = Append(projectMatches, matchOfRule(sel))
    /\ UNCHANGED <<targetInfo, ruleParts, matchInfo, libraryMatches, inlineStyles, ghostData>>
    /\ UNCHANGED exceptGhost

\* a library stylesheet holds a rule that matches the target
FindLibraryMatch(sel) ==
    /\ ghostData = << >>
    /\ stylesSeen < MaxStyles
    /\ ruleMatches(sel)
    /\ libraryMatches' = Append(libraryMatches, matchOfRule(sel))
    /\ UNCHANGED <<targetInfo, ruleParts, matchInfo, projectMatches, inlineStyles, ghostData>>
    /\ UNCHANGED exceptGhost

\* the page holds an inline style block
FindInlineStyle(content) ==
    /\ ghostData = << >>
    /\ stylesSeen < MaxStyles
    /\ inlineStyles' = Append(inlineStyles, [content |-> content])
    /\ UNCHANGED <<targetInfo, ruleParts, matchInfo, projectMatches, libraryMatches, ghostData>>
    /\ UNCHANGED exceptGhost

\* the report generator asks for the ghost classes
DetectGhostClasses ==
    /\ ghostData = << >>
    /\ ghostData' = <<detectGhostClasses(targetInfo,
                                         << [matches |-> projectMatches] >>,
                                         << [matches |-> libraryMatches] >>,
                                         inlineStyles)>>
    /\ UNCHANGED <<targetInfo, ruleParts, matchInfo, projectMatches, libraryMatches,
                   inlineStyles>>
    /\ UNCHANGED exceptGhost

GhostInit ==
    /\ targetInfo \in GhostTargets
    /\ ruleParts = << >>
    /\ matchInfo = << >>
    /\ GhostIdle
    /\ CacheIdle
    /\ ResolverIdle
    /\ FetcherIdle
    /\ CascadeIdle
    /\ SpecificityIdle

GhostNext ==
    \/ \E sel \in GhostSelectors : FindProjectMatch(sel)
    \/ \E sel \in GhostSelectors : FindLibraryMatch(sel)
    \/ \E content \in InlineContents : FindInlineStyle(content)
    \/ DetectGhostClasses

SpecGhost == GhostInit /\ [][GhostNext]_vars

\* the report detectGhostClasses has returned
ghostReported == ghostData # << >>
ghostReport == ghostData[1]
ghostSet == {ghostReport.ghostClasses[i] : i \in 1..Len(ghostReport.ghostClasses)}
definedSet == {ghostReport.definedClasses[i] : i \in 1..Len(ghostReport.definedClasses)}
identityClasses == {targetInfo.classes[i] : i \in 1..Len(targetInfo.classes)}

\* a class name without its leading dot, if it has one
undotted(cls) == IF Len(cls) > 0 /\ cls[1] = "." THEN Tail(cls) ELSE cls

\* the selectors of the matched rules and the texts of the inline styles
seenMatches == projectMatches \o libraryMatches
seenTexts ==
    {seenMatches[i].selector : i \in 1..Len(seenMatches)}
    \cup {inlineStyles[i].content : i \in 1..Len(inlineStyles)}

\* some matched rule carries the reason `class: c`
hasClassReason(c) ==
    \E i \in 1..Len(seenMatches) :
        \E j \in 1..Len(seenMatches[i].matchedOn) :
            seenMatches[i].matchedOn[j] = <<"c", "l", "a", "s", "s", ":", " ">> \o c

(***************************************************************************)
(* C13: no class is reported both as ghost and as defined: no element of   *)
(* ghostClasses appears in definedClasses, with or without a leading dot.  *)
(***************************************************************************)
C13_GhostNotDefined ==
    ghostReported =>
       \A g \in ghostSet, d \in definedSet : undotted(g) # undotted(d)

(***************************************************************************)
(* C14: a class that follows a utility, state or framework convention is   *)
(* never reported as ghost, whatever the CSS results are: `flex`, `p-4`,   *)
(* `is-active`, the CSS-Modules names `Btn_primary_a1b2c` and              *)
(* `Button_primary_a8f3d`, the CSS-in-JS names `sc-bdVaJa`, `emotion-0`,   *)
(* `css-1x2y3z` and `jss0`.                                                *)
(***************************************************************************)
ConventionClasses ==
    {ClassFlex, ClassP4, ClassIsActive, ClassBtnModule, ClassButtonModule,
     ClassStyled, ClassEmotion, ClassCssHash, ClassJss}

C14_ConventionsNeverGhost ==
    ghostReported => ghostSet \cap ConventionClasses = {}

(***************************************************************************)
(* C15 (as stated): a target class that matches no utility pattern and     *)
(* that no CSS rule or inline style targets (no matched rule carries a     *)
(* `class:` reason for it and no selector contains it as a class token)    *)
(* is always in ghostClasses, whatever was matched for the other classes   *)
(* of the element; with no matching CSS, the classes `flex`, `p-4`,        *)
(* `text-blue-500`, `my-missing-class` give exactly [`my-missing-class`].  *)
(***************************************************************************)
untargeted(cls) ==
    /\ ~isUtility(undotted(cls))
    /\ ~hasClassReason(undotted(cls))
    /\ \A text \in seenTexts : classTokenAt(text, undotted(cls)) = {}

utilityScenario ==
    /\ targetInfo.classes = <<ClassFlex, ClassP4, ClassTextBlue, ClassMyMissing>>
    /\ seenMatches = << >>

C15_UntargetedIsGhost ==
    ghostReported =>
       /\ \A cls \in identityClasses : untargeted(cls) => cls \in ghostSet
       /\ utilityScenario => ghostReport.ghostClasses = <<ClassMyMissing>>

(***************************************************************************)
(* C15 (amended): a target class that matches no utility pattern, for      *)
(* whose name no matched rule carries a `class:` reason, and that is not a *)
(* substring of the selector of any matched rule nor of the content of any *)
(* inline style, is always in ghostClasses; with no matching CSS, the      *)
(* classes `flex`, `p-4`, `text-blue-500`, `my-missing-class` give exactly *)
(* [`my-missing-class`].                                                   *)
(***************************************************************************)
unmentioned(cls) ==
    /\ ~isUtility(undotted(cls))
    /\ ~hasClassReason(undotted(cls))
    /\ \A text \in seenTexts :
          \A i \in 1..(Len(text) + 1) : ~startsWithAt(text, i, cls)

C15_UnmentionedIsGhost ==
    ghostReported =>
       /\ \A cls \in identityClasses : unmentioned(cls) => cls \in ghostSet
       /\ utilityScenario => ghostReport.ghostClasses = <<ClassMyMissing>>

\* a rule was matched for `flex`, and `my-missing-class` was reported
C15_Witness ==
    /\ ghostReported
    /\ ClassMyMissing \in identityClasses
    /\ seenMatches # << >>
    /\ unmentioned(ClassMyMissing)
    /\ ClassMyMissing \in ghostSet

(***************************************************************************)
(* C16: every report detectGhostClasses returns, the one for an identity   *)
(* without classes included, carries hasGhosts, and hasGhosts is           *)
(* ghostClasses.length > 0.                                                *)
(***************************************************************************)
C16_HasGhostsCarried ==
    ghostReported =>
       /\ "hasGhosts" \in DOMAIN ghostReport
       /\ ghostReport.hasGhosts = (Len(ghostReport.ghostClasses) > 0)

(***************************************************************************)
(* The analysis cache of css-analyzer.js: parseCache, analyzeCSS with its  *)
(* cache lookup and store, clearCache.                                     *)
(*                                                                         *)
(* A file is named by its number.  analyzeCSS holds no await, so a call    *)
(* runs from its lookup to its store without another call in between: one  *)
(* call is one step.                                                       *)
(***************************************************************************)
MAX_CACHE_SIZE == 50

\* the files one run may analyse
MaxKeys == 51

\* an identity without its classes, ids and dataAttributes lists
TargetNoLists == [tagName |-> <<"a">>]

\* the targets a run may be given
CacheTargets == {TargetBtn, TargetNoLists}

\* the target of the run
CacheTarget == targetInfo

\* `${filePath}:${JSON.stringify(targetInfo)}`
cacheKey(filePath, info) == <<filePath, info>>

\* what fs.readFileSync finds for the file
contentOf(filePath) ==
    IF filePath \in DOMAIN fileContents THEN fileContents[filePath] ELSE StyleOriginal

PseudoPart == <<":", "p", "a", "r", "t">>
PseudoSlotted == <<":", "s", "l", "o", "t", "t", "e", "d">>
ReasonPart == <<"p", "a", "r", "t", ":", " ">>
ReasonHostWithPart == <<"s", "h", "a", "d", "o", "w", "-", "h", "o", "s", "t", " ",
                        "w", "i", "t", "h", " ", "p", "a", "r", "t">>
ReasonSlotted == <<"s", "l", "o", "t", "t", "e", "d", ":", " ">>

\* targetInfo.shadowParts?.includes(partName)
hasShadowPart(info, partName) ==
    "shadowParts" \in DOMAIN info /\ setHas(info.shadowParts, partName)

\* the `::part(` half of checkShadowDOMMatch: what it pushes on matchedOn
partReasons(selector, info) ==
    LET partMatch == innerSelectors(selector, PseudoPart, 1)
    IN  IF ~includesText(selector, <<":">> \o PseudoPart \o <<"(">>) \/ partMatch = << >>
        THEN << >>
        ELSE LET partName == trim(partMatch[1])
                 allIdentifiers == info.classes \o info.ids \o <<info.tagName>>
             IN  (IF hasShadowPart(info, partName)
                  THEN <<ReasonPart \o partName>> ELSE << >>)
                 \o (IF \E i \in 1..Len(allIdentifiers) :
                            /\ allIdentifiers[i] # << >>
                            /\ includesText(selector, allIdentifiers[i])
                     THEN <<ReasonHostWithPart>> ELSE << >>)

\* the `::slotted(` half
slottedReasons(selector, info) ==
    LET slottedMatch == innerSelectors(selector, PseudoSlotted, 1)
    IN  IF ~includesText(selector, <<":">> \o PseudoSlotted \o <<"(">>)
           \/ slottedMatch = << >>
        THEN << >>
        ELSE LET slottedSelector == trim(slottedMatch[1])
                 allIdentifiers == info.classes \o info.ids
             IN  IF \E i \in 1..Len(allIdentifiers) :
                        includesText(slottedSelector, allIdentifiers[i])
                 THEN <<ReasonSlotted \o slottedSelector>> ELSE << >>

checkShadowDOMMatch(selector, info) ==
    LET matchedOn == partReasons(selector, info) \o slottedReasons(selector, info)
    IN  [matches |-> Len(matchedOn) > 0,
         matchedOn |-> matchedOn,
         type |-> IF slottedReasons(selector, info) # << >> THEN "::slotted"
                  ELSE IF partReasons(selector, info) # << >> THEN "::part"
                  ELSE "null"]

\* the positions of the rules a test accepts, in source order
RECURSIVE rulesWhere(_, _)
rulesWhere(accepted, i) ==
    IF i > Len(accepted) THEN << >>
    ELSE (IF accepted[i] THEN <<i>> ELSE << >>) \o rulesWhere(accepted, i + 1)

\* the matches walkRules collects from the rules of a stylesheet; a rule is
\* identified by its position in the file
matchesIn(rules, info) ==
    LET targetSelectors == buildTargetSelectors(info)
        hit == rulesWhere([i \in 1..Len(rules) |->
                             checkRuleMatch(rules[i], targetSelectors).matches], 1)
    IN  [k \in 1..Len(hit) |->
            [selector |-> rules[hit[k]],
             startLine |-> hit[k],
             matchedOn |-> checkRuleMatch(rules[hit[k]], targetSelectors).matchedOn]]

\* the shadow DOM rules walkRules collects
shadowDOMRulesIn(rules, info) ==
    LET hit == rulesWhere([i \in 1..Len(rules) |->
                             checkShadowDOMMatch(rules[i], info).matches], 1)
    IN  [k \in 1..Len(hit) |->
            [selector |-> rules[hit[k]],
             startLine |-> hit[k],
             matchedOn |-> checkShadowDOMMatch(rules[hit[k]], info).matchedOn,
             shadowDOMType |-> checkShadowDOMMatch(rules[hit[k]], info).type,
             isShadowDOM |-> TRUE]]

\* buildTargetSelectors calls forEach on a list the identity does not have
buildThrows(info) == ~({"classes", "ids", "dataAttributes"} \subseteq DOMAIN info)

\* analyzeCSS past the cache lookup: read, parse, walk, build the result
analyzeFile(filePath, info, file) ==
    IF ~file.readable
    THEN [filePath |-> filePath, matches |-> << >>, error |-> "ENOENT"]
    ELSE IF file.blank
    THEN [filePath |-> filePath, matches |-> << >>, error |-> "Empty file"]
    ELSE IF ~file.parses
    THEN [filePath |-> filePath, matches |-> << >>, error |-> "CssSyntaxError"]
    ELSE IF buildThrows(info)
    THEN [filePath |-> filePath, matches |-> << >>, error |-> "TypeError"]
    ELSE [filePath |-> filePath,
          matches |-> matchesIn(file.rules, info),
          shadowDOMRules |-> shadowDOMRulesIn(file.rules, info)]

\* a test that takes every result for a success
failedNever(result) == FALSE

\* the early returns of the two catch blocks and of the empty-file test
failed(result) == "error" \in DOMAIN result

\* position of the key in the Map, 0 when the Map does not have it
cacheIndex(cache, key) ==
    IF \E i \in 1..Len(cache) : cache[i].key = key
    THEN CHOOSE i \in 1..Len(cache) : cache[i].key = key
    ELSE 0

\* Map.prototype.set: a known key keeps its place, a new key goes last
mapSet(cache, key, result) ==
    IF cacheIndex(cache, key) # 0
    THEN [cache EXCEPT ![cacheIndex(cache, key)].result = result]
    ELSE Append(cache, [key |-> key, result |-> result])

\* the store with `>` for `>=`
storeResultAboveLimit(cache, key, result) ==
    mapSet(IF Len(cache) > MAX_CACHE_SIZE THEN Tail(cache) ELSE cache, key, result)

\* the store that deletes the newest key
storeResultDropNewest(cache, key, result) ==
    mapSet(IF Len(cache) >= MAX_CACHE_SIZE THEN SubSeq(cache, 1, Len(cache) - 1) ELSE cache,
           key, result)

\* if (parseCache.size >= MAX_CACHE_SIZE) delete the first key; then set
storeResult(cache, key, result) ==
    mapSet(IF Len(cache) >= MAX_CACHE_SIZE THEN Tail(cache) ELSE cache, key, result)

cachedKeys(cache) == {cache[i].key : i \in 1..Len(cache)}

\* the entry a hit returned, with the entry stored right after it, if there is
\* one: an entry that was used before this hit
hitRecord(cache, i) ==
    [key |-> cache[i].key,
     before |-> IF i < Len(cache) THEN <<cache[i + 1].key>> ELSE << >>]

\* lastHit once the Map has become `cache`
stillCached(hit, cache) ==
    IF hit # << >> /\ hit[1].key \in cachedKeys(cache) THEN hit ELSE << >>

\* one call analyzeCSS(filePath, CacheTarget, {useCache})
AnalyzeCSS(filePath, useCache) ==
    LET key == cacheKey(filePath, CacheTarget)
        i == cacheIndex(parseCache, key)
        result == analyzeFile(filePath, CacheTarget, contentOf(filePath))
    IN  /\ IF useCache /\ i # 0
           THEN /\ returned' = <<parseCache[i].result>>
                /\ lastHit' = <<hitRecord(parseCache, i)>>
                /\ UNCHANGED parseCache
           ELSE IF failed(result) \/ ~useCache
           THEN /\ returned' = <<result>>
                /\ UNCHANGED <<parseCache, lastHit>>
           ELSE /\ returned' = <<result>>
                /\ parseCache' = storeResult(parseCache, key, result)
                /\ lastHit' = stillCached(lastHit, parseCache')
        /\ UNCHANGED fileContents
        /\ UNCHANGED exceptCache

\* the environment rewrites, empties or removes a file
WriteFile(filePath, file) ==
    /\ fileContents[filePath] # file
    /\ fileContents' = [fileContents EXCEPT ![filePath] = file]
    /\ UNCHANGED <<parseCache, lastHit, returned>>
    /\ UNCHANGED exceptCache

ClearCache ==
    /\ parseCache' = << >>
    /\ lastHit' = << >>
    /\ UNCHANGED <<fileContents, returned>>
    /\ UNCHANGED exceptCache

CacheInit ==
    /\ CacheIdle
    /\ ResolverIdle
    /\ FetcherIdle
    /\ CascadeIdle
    /\ SpecificityIdle
    /\ targetInfo \in CacheTargets
    /\ ruleParts = << >>
    /\ matchInfo = << >>
    /\ GhostIdle

FileStates == {StyleOriginal, StyleEdited, StyleEmpty, StyleMissing}

\* a long-running process: the files change between the calls
CacheNext ==
    \/ \E filePath \in 1..MaxFiles, useCache \in BOOLEAN : AnalyzeCSS(filePath, useCache)
    \/ \E filePath \in 1..MaxFiles, file \in FileStates : WriteFile(filePath, file)
    \/ ClearCache

SpecCache == CacheInit /\ [][CacheNext]_vars

\* the file a run turns to when it leaves the cached ones: the files are
\* numbered in the order the run comes to them
nextFile ==
    IF parseCache = << >> THEN 1 ELSE parseCache[Len(parseCache)].key[1] + 1

\* one run over a large project whose files stay as they are
CacheFillNext ==
    \/ \E filePath \in 1..MaxKeys :
          /\ \/ cacheKey(filePath, CacheTarget) \in cachedKeys(parseCache)
             \/ filePath = nextFile
          /\ AnalyzeCSS(filePath, TRUE)
    \/ ClearCache

SpecCacheFill == CacheInit /\ [][CacheFillNext]_vars

(***************************************************************************)
(* C17: the cache is a pure optimization: whatever analyzeCSS calls,       *)
(* changes of the files and clearCache calls came before, a call with      *)
(* useCache enabled returns what the same call with useCache disabled      *)
(* would return at that moment.                                            *)
(***************************************************************************)
C17_CachedEqualsUncached ==
    [][\A filePath \in 1..MaxFiles :
          AnalyzeCSS(filePath, TRUE) =>
             returned' = <<analyzeFile(filePath, CacheTarget, contentOf(filePath))>>]_vars

(***************************************************************************)
(* C18: parseCache never holds more than MAX_CACHE_SIZE = 50 entries,      *)
(* after any sequence of analyzeCSS and clearCache calls.                  *)
(***************************************************************************)
C18_CacheBounded == Len(parseCache) <= MAX_CACHE_SIZE

\* the cache is full and has evicted an entry
C18_Witness ==
    /\ Len(parseCache) = MAX_CACHE_SIZE
    /\ parseCache[1].key[1] > 1

(***************************************************************************)
(* C19: eviction is least-recently-inserted: when a new result is stored   *)
(* while the cache holds 50 entries, exactly one entry is evicted, the one *)
(* inserted earliest among those present; a cache hit never changes which  *)
(* entry is evicted next.                                                  *)
(***************************************************************************)
\* the files are numbered in the order the run first analyses them
earliestInserted(cache) ==
    CHOOSE e \in cachedKeys(cache) : \A o \in cachedKeys(cache) : e[1] <= o[1]

\* a call has returned a cached entry and has not returned it just before
hitStep == lastHit' # << >> /\ lastHit' # lastHit

\* a call has stored a result
storeStep == parseCache' # parseCache /\ parseCache' # << >>

C20_HitEntryOutlivesOlderUse ==
    [][parseCache' # << >> =>
          \A e \in cachedKeys(parseCache) \ cachedKeys(parseCache') :
              ~ /\ lastHit # << >>
                /\ lastHit[1].key = e
                /\ lastHit[1].before # << >>
                /\ lastHit[1].before[1] \in cachedKeys(parseCache')]_vars

(***************************************************************************)
(* The two operations of the core under malformed and missing input: a run *)
(* either measures a selector or analyses files.                           *)
(***************************************************************************)

\* files postcss rejects and files without a rule
MalformedFiles == {StyleBroken, StyleComment}

CoreNext ==
    \/ CacheIdle /\ SpecificityNext
    \/ CacheIdle /\ WritePart(PartUnclosed)
    \/ SpecificityIdle /\ CacheNext
    \/ /\ SpecificityIdle
       /\ \E filePath \in 1..MaxFiles, file \in MalformedFiles : WriteFile(filePath, file)

SpecCore == CacheInit /\ [][CoreNext]_vars

\* a value calculateSpecificity cannot measure
malformedSelector(value) ==
    \/ value.type # "string"
    \/ value.text = << >>
    \/ calculateThrows(value.text)

\* a file, or a target, analyzeCSS cannot find a match for
zeroInput(filePath) ==
    LET file == contentOf(filePath)
    IN  \/ ~file.readable
        \/ file.blank
        \/ ~file.parses
        \/ file.rules = << >>
        \/ buildThrows(targetInfo)

(***************************************************************************)
(* C21: malformed or missing input is answered with the zero-value result: *)
(* calculateSpecificity returns [0,0,0,0] for a value that is no string,   *)
(* for the empty string and for a selector the parser rejects; analyzeCSS  *)
(* returns a result with an empty match list for an unreadable, empty or   *)
(* unparseable file, for a file without rules and for a target identity    *)
(* without its lists.                                                      *)
(***************************************************************************)
C21_ZeroValueOnBadInput ==
    [][/\ \A value \in NonStrings \cup {String(selectorText(selectorParts))} :
             CalculateSpecificity(value) /\ malformedSelector(value) =>
                specificity' = <<0, 0, 0, 0>>
       /\ \A filePath \in 1..MaxFiles, useCache \in BOOLEAN :
             AnalyzeCSS(filePath, useCache) /\ zeroInput(filePath) =>
                /\ "matches" \in DOMAIN returned'[1]
                /\ returned'[1].matches = << >>]_vars

(***************************************************************************)
(* The report run of runAnalysis (html-parser.js) and generateMarkdown     *)
(* (conversion-generator.js): the results with matches are collected with  *)
(* their isLinked flag and generateMarkdown calls analyzeConflicts.        *)
(***************************************************************************)

\* linkedFiles.css.some(f => path.resolve(f) === path.resolve(cssFile))
isLinkedFile(linked, filePath) == \E i \in 1..Len(linked) : linked[i] = filePath

\* r.file as a key of the fileOrder object: a result carries filePath and no
\* file, and an object key that is undefined is the string "undefined"
fileOf(r) == IF "file" \in DOMAIN r THEN r.file ELSE "undefined"

\* cssResults.filter(r => r.isLinked).map(r => r.file)
linkOrderList(results) ==
    LET linked == SelectSeq(results, LAMBDA r : r.isLinked)
    IN  [i \in 1..Len(linked) |-> fileOf(linked[i])]

\* one turn of the loop over projectFiles.css: a result with matches is kept
CollectResult(f) ==
    /\ pc \in {"author", "collect"}
    /\ f \notin arrived
    /\ sheets[f] # << >>
    /\ cssResults' = Append(cssResults,
                            [filePath |-> f, matches |-> sheets[f],
                             isLinked |-> isLinkedFile(linkedFiles, f)])
    /\ pc' = "collect"
    /\ UNCHANGED <<sheets, linkedFiles, conflicts>>
    /\ UNCHANGED exceptCascade

\* generateMarkdown, as far as the conflict section goes: the conflict map
\* is computed and formatted
GenerateMarkdown ==
    /\ pc = "collect"
    /\ \A f \in Files : sheets[f] # << >> => f \in arrived
    /\ conflicts' = formatConflictsMarkdown(
                        analyzeConflicts(cssResults, linkOrderList(cssResults))).conflicts
    /\ pc' = "done"
    /\ UNCHANGED <<sheets, linkedFiles, cssResults>>
    /\ UNCHANGED exceptCascade

ReportNext ==
    \/ \E f \in Files, sel \in MatchSelectors, content \in Contents :
          AuthorMatch(f, sel, content)
    \/ \E f \in Files : LinkFile(f)
    \/ \E f \in Files : CollectResult(f)
    \/ GenerateMarkdown

SpecReport == CascadeInit /\ [][ReportNext]_vars

\* the 0-based position of a linked file in the page's link order
linkPosition(filePath) ==
    (CHOOSE i \in 1..Len(linkedFiles) : linkedFiles[i] = filePath) - 1

\* the candidates of a decision
decisionEntries(data) == {data.winner} \cup {data.losers[i] : i \in 1..Len(data.losers)}

(***************************************************************************)
(* C22: when generateMarkdown calls analyzeConflicts, every candidate from *)
(* a linked file carries that file's position in the page's link order as  *)
(* its file order, and a candidate of a linked file that ties in           *)
(* !important and specificity with the winner is not from a file linked    *)
(* later than the winner's.                                                *)
(***************************************************************************)
C22_LinkOrderReachesEngine ==
    pc = "done" =>
        \A q \in DOMAIN conflicts :
            \A e \in decisionEntries(conflicts[q]) :
                isLinkedFile(linkedFiles, e.file) =>
                    /\ e.fileOrder = linkPosition(e.file)
                    /\ LET w == conflicts[q].winner
                       IN  /\ isLinkedFile(linkedFiles, w.file)
                           /\ e.hasImportant = w.hasImportant
                           /\ e.specificity = w.specificity
                           => linkPosition(e.file) <= linkPosition(w.file)

(***************************************************************************)
(* C23: every selector the resolver hands to the matcher, which becomes    *)
(* the match's selector and the input of its specificity, is one selector  *)
(* without a comma: a rule whose own or whose ancestor's selector is a     *)
(* comma-separated list never yields one comma-joined string.              *)
(***************************************************************************)
C23_ResolvedIsCommaFree ==
    \A k \in visitedRules : ~includes(resolved[k], ",")

(***************************************************************************)
(* C27: for a nested rule without `&`, every comma-separated branch of the *)
(* resolved selector begins with a branch of the parent's resolved         *)
(* selector; parent `.c` with child `.a, .b` resolves to `.c .a` and      *)
(* `.c .b`.                                                                *)
(***************************************************************************)
C27_ChildBranchesStayInParent ==
    \A k \in nestedVisited :
        ~includes(nodes[k].selector, "&") =>
            LET parents == branchesOf(resolved[nodes[k].parent])
                out     == branchesOf(resolved[k])
            IN  \A i \in 1..Len(out) :
                    \E j \in 1..Len(parents) :
                        startsWithAt(out[i], 1, parents[j] \o <<" ">>)

(***************************************************************************)
(* The loop of runAnalysis over the project's stylesheets: each file is    *)
(* analysed for the target and its result is kept when it has matches.     *)
(* The files are visited in any order; a turn that keeps nothing may be    *)
(* taken again and then finds its result in the cache.                     *)
(***************************************************************************)

TargetDivBtn == [classes |-> <<ClassBtn>>, ids |-> << >>,
                 tagName |-> <<"d", "i", "v">>, dataAttributes |-> << >>]
TargetDivPart == [classes |-> <<ClassBtn>>, ids |-> << >>,
                  tagName |-> <<"d", "i", "v">>, dataAttributes |-> << >>,
                  shadowParts |-> << <<"l", "b">> >>]
RunTargets == {TargetDivBtn, TargetDivPart, TargetNoLists}

\* `.btn::part(lb)`
StyleHostPart == [readable |-> TRUE, blank |-> FALSE, parses |-> TRUE,
                  rules |-> << <<".", "b", "t", "n", ":", ":", "p", "a", "r", "t",
                                 "(", "l", "b", ")">> >>]
\* `x-c::part(lb)`
StylePartOnly == [readable |-> TRUE, blank |-> FALSE, parses |-> TRUE,
                  rules |-> << <<"x", "-", "c", ":", ":", "p", "a", "r", "t",
                                 "(", "l", "b", ")">> >>]
\* `.btn` and `::slotted(.btn)`
StyleSlotted  == [readable |-> TRUE, blank |-> FALSE, parses |-> TRUE,
                  rules |-> << <<".", "b", "t", "n">>,
                               <<":", ":", "s", "l", "o", "t", "t", "e", "d",
                                 "(", ".", "b", "t", "n", ")">> >>]
\* `::slotted(.btn)`
StyleSlottedOnly == [readable |-> TRUE, blank |-> FALSE, parses |-> TRUE,
                     rules |-> << <<":", ":", "s", "l", "o", "t", "t", "e", "d",
                                    "(", ".", "b", "t", "n", ")">> >>]
RunFiles == {StyleOriginal, StyleComment, StyleHostPart, StylePartOnly, StyleSlotted,
             StyleSlottedOnly}

\* what analyzeCSS(cssFile, targetInfo, { verbose }) returns in the present state
analyzeCSSResult(filePath) ==
    LET i == cacheIndex(parseCache, cacheKey(filePath, targetInfo))
    IN  IF i # 0 THEN parseCache[i].result
        ELSE analyzeFile(filePath, targetInfo, contentOf(filePath))

\* one turn of the loop over projectFiles.css
AnalyzeProjectFile(cssFile) ==
    LET key == cacheKey(cssFile, targetInfo)
        i == cacheIndex(parseCache, key)
        result == analyzeCSSResult(cssFile)
    IN  /\ cssFile \notin arrived
        /\ returned' = <<result>>
        /\ parseCache' = IF i # 0 \/ failed(result) THEN parseCache
                         ELSE storeResult(parseCache, key, result)
        /\ lastHit' = IF i # 0 THEN <<hitRecord(parseCache, i)>>
                      ELSE stillCached(lastHit, parseCache')
        /\ cssResults' = IF Len(result.matches) > 0
                         THEN Append(cssResults,
                                     result @@ [isLinked |->
                                                  isLinkedFile(linkedFiles, cssFile)])
                         ELSE cssResults
        /\ UNCHANGED <<fileContents, sheets, linkedFiles, conflicts, pc>>
        /\ UNCHANGED <<resolverVars, specificityVars, matcherVars, ghostVars, fetcherVars>>

RunInit ==
    /\ parseCache = << >>
    /\ fileContents \in [1..MaxFiles -> RunFiles]
    /\ lastHit = << >>
    /\ returned = << >>
    /\ targetInfo \in RunTargets
    /\ ruleParts = << >>
    /\ matchInfo = << >>
    /\ ResolverIdle
    /\ FetcherIdle
    /\ CascadeIdle
    /\ SpecificityIdle
    /\ GhostIdle

RunNext == \E cssFile \in 1..MaxFiles : AnalyzeProjectFile(cssFile)

SpecRun == RunInit /\ [][RunNext]_vars

\* the positions of the rules of a list of matches
startLines(found) == {found[i].startLine : i \in 1..Len(found)}

(***************************************************************************)
(* C24: shadow-DOM matches are a category of their own: a rule that        *)
(* analyzeCSS records in shadowDOMRules is not recorded in matches as      *)
(* well, so it puts no candidate declaration into the conflict analysis.   *)
(***************************************************************************)
C24_ShadowRulesNotInMatches ==
    \A i \in 1..Len(returned) :
        "shadowDOMRules" \in DOMAIN returned[i] =>
            startLines(returned[i].shadowDOMRules) \cap startLines(returned[i].matches) = {}

\* the loop has passed every file: its result was kept, or was stored in the
\* cache and not kept, or was an error result
runComplete ==
    \A cssFile \in 1..MaxFiles :
        \/ cssFile \in arrived
        \/ /\ cacheIndex(parseCache, cacheKey(cssFile, targetInfo)) # 0
           /\ Len(analyzeCSSResult(cssFile).matches) = 0
        \/ failed(analyzeCSSResult(cssFile))

(***************************************************************************)
(* C29: every shadow-DOM match reaches the report: once the loop of        *)
(* runAnalysis has passed every file, a file for which analyzeCSS finds    *)
(* shadow-DOM rules is among the results handed to the report generator,   *)
(* also when its general match list is empty.                              *)
(***************************************************************************)
C29_ShadowOnlyFileKept ==
    runComplete =>
        \A cssFile \in 1..MaxFiles :
            LET result == analyzeCSSResult(cssFile)
            IN  ("shadowDOMRules" \in DOMAIN result /\ Len(result.shadowDOMRules) > 0)
                    => cssFile \in arrived

(***************************************************************************)
(* The conflict map of a finished analysis is formatted, any number of     *)
(* times.                                                                  *)
(***************************************************************************)

\* one call formatConflictsMarkdown(conflicts)
FormatConflictsMarkdown ==
    /\ pc = "done"
    /\ conflicts' = formatConflictsMarkdown(conflicts).conflicts
    /\ UNCHANGED <<sheets, linkedFiles, cssResults, pc>>
    /\ UNCHANGED exceptCascade

FormatNext ==
    \/ CascadeNext
    \/ FormatConflictsMarkdown

SpecFormat == CascadeInit /\ [][FormatNext]_vars

(***************************************************************************)
(* C25: formatConflictsMarkdown leaves the conflict map it is given as it  *)
(* was, the order of every losers list included, so that formatting the    *)
(* same map again yields the same text.                                    *)
(***************************************************************************)
C25_FormatLeavesConflicts ==
    [][FormatConflictsMarkdown =>
          /\ conflicts' = conflicts
          /\ formatConflictsMarkdown(conflicts').md = formatConflictsMarkdown(conflicts).md]_vars

\* the candidates of a decision from the weakest to the winner
ranking(data) == Append(data.losers, data.winner)

\* two candidates equal in `!important` status and in specificity
tied(a, b) == a.hasImportant = b.hasImportant /\ a.specificity = b.specificity

(***************************************************************************)
(* C26: in analyzeConflicts a candidate whose file the link-order list     *)
(* does not name gets file order 999; with fewer than 999 linked files it  *)
(* ranks above every candidate of a listed file it ties with in            *)
(* `!important` and specificity, and of two tied candidates of unlisted    *)
(* files the one collected later ranks higher.                             *)
(***************************************************************************)
C26_UnlistedOutranksListed ==
    (pc = "done" /\ Len(linkedFiles) < 999) =>
        \A q \in DOMAIN conflicts :
            LET rank == ranking(conflicts[q]) IN
            \A i \in 1..Len(rank) :
                ~listed(rank[i].file) =>
                    /\ rank[i].fileOrder = 999
                    /\ \A j \in 1..Len(rank) :
                          tied(rank[i], rank[j]) =>
                             /\ listed(rank[j].file) => j < i
                             /\ (~listed(rank[j].file)
                                 /\ rank[j].globalOrder < rank[i].globalOrder) => j < i

\* an unlisted candidate collected before a tied candidate of a listed file
\* and after another tied candidate of an unlisted file
C26_Witness ==
    /\ pc = "done"
    /\ \E q \in DOMAIN conflicts :
          LET rank == ranking(conflicts[q]) IN
          \E i, j, k \in 1..Len(rank) :
              /\ ~listed(rank[i].file) /\ listed(rank[j].file) /\ ~listed(rank[k].file)
              /\ tied(rank[i], rank[j]) /\ tied(rank[i], rank[k])
              /\ rank[i].globalOrder < rank[j].globalOrder
              /\ rank[k].globalOrder < rank[i].globalOrder
              /\ k < i /\ j < i

(***************************************************************************)
(* Calls of analyzeCSS, with the cache enabled or not, and of clearCache   *)
(* over files that stay as they are: some hold a rule or a comment, some   *)
(* are empty, some cannot be read.                                         *)
(***************************************************************************)

FrameFiles == {StyleOriginal, StyleComment, StyleEmpty, StyleMissing}

FrameInit ==
    /\ parseCache = << >>
    /\ fileContents \in [1..MaxFiles -> FrameFiles]
    /\ lastHit = << >>
    /\ returned = << >>
    /\ targetInfo \in CacheTargets
    /\ ruleParts = << >>
    /\ matchInfo = << >>
    /\ ResolverIdle
    /\ FetcherIdle
    /\ CascadeIdle
    /\ SpecificityIdle
    /\ GhostIdle

FrameNext ==
    \/ \E filePath \in 1..MaxFiles, useCache \in BOOLEAN : AnalyzeCSS(filePath, useCache)
    \/ ClearCache

SpecCacheFrame == FrameInit /\ [][FrameNext]_vars

(***************************************************************************)
(* C28: an analyzeCSS call changes parseCache only when useCache is        *)
(* enabled, the key is not cached and the analysis succeeds: a call that   *)
(* ends in an error or empty-file result, a cache hit and every call with  *)
(* useCache disabled leave the cached entries and their order as they are. *)
(***************************************************************************)
C28_CacheChangesOnStoredMissOnly ==
    [][parseCache' # parseCache =>
          \A filePath \in 1..MaxFiles, useCache \in BOOLEAN :
             AnalyzeCSS(filePath, useCache) =>
                /\ useCache
                /\ cacheIndex(parseCache, cacheKey(filePath, targetInfo)) = 0
                /\ "error" \notin
                       DOMAIN analyzeFile(filePath, targetInfo, contentOf(filePath))]_vars

\* the cache holds an entry that a hit has returned, and the latest call,
\* for a file that is not cached, has ended in an error result
C28_Witness ==
    /\ parseCache # << >>
    /\ lastHit # << >>
    /\ returned # << >>
    /\ "error" \in DOMAIN returned[1]
    /\ cacheIndex(parseCache, cacheKey(returned[1].filePath, targetInfo)) = 0

(***************************************************************************)
(* fetchURL (url-fetcher.js): one call, the requests it sends while it     *)
(* follows redirects, and what the network answers to each of them.        *)
(***************************************************************************)

\* the largest maxRedirects a caller passes
MaxRedirectsOption == 5

RedirectCodes == {301, 302, 303, 307, 308}
StatusCodes == {200, 301, 308, 404}

\* res.headers.location: whether the header is there, whether its value
\* starts with `http`, and whether the URL constructor accepts it
NoLocation == [present |-> FALSE, http |-> FALSE, valid |-> FALSE]
Locations ==
    {NoLocation} \cup {[present |-> TRUE, http |-> h, valid |-> v] : h, v \in BOOLEAN}

Resolved == [state |-> "fulfilled", message |-> ""]
Rejected(message) == [state |-> "rejected", message |-> message]

\* fetchURL(url, options): the executor parses the URL and sends the request
FetchURL(urlValid) ==
    /\ requests = 0 /\ pending = "none" /\ settled = << >>
    /\ IF urlValid
       THEN /\ requests' = 1
            /\ pending' = "request"
            /\ UNCHANGED settled
       ELSE /\ settled' = <<Rejected("Invalid URL")>>
            /\ UNCHANGED <<requests, pending>>
    /\ UNCHANGED <<options, maxRedirects>>
    /\ UNCHANGED exceptFetcher

\* the response callback of the request in flight
Response(statusCode, location) ==
    /\ pending = "request"
    /\ IF options.followRedirects /\ statusCode \in RedirectCodes
       THEN IF maxRedirects <= 0
            THEN /\ settled' = <<Rejected("Too many redirects")>>
                 /\ pending' = "none"
                 /\ UNCHANGED <<maxRedirects, requests>>
            ELSE IF ~location.present
            THEN /\ settled' = <<Rejected("Redirect without location header")>>
                 /\ pending' = "none"
                 /\ UNCHANGED <<maxRedirects, requests>>
            ELSE IF ~location.http /\ ~location.valid
            \* new URL(redirectUrl, url) throws inside the callback
            THEN /\ pending' = "none"
                 /\ UNCHANGED <<maxRedirects, requests, settled>>
            ELSE IF location.http /\ ~location.valid
            \* the executor of the inner call throws: its promise is rejected
            THEN /\ settled' = <<Rejected("Invalid URL")>>
                 /\ pending' = "none"
                 /\ UNCHANGED <<maxRedirects, requests>>
            ELSE /\ maxRedirects' = maxRedirects - 1
                 /\ requests' = requests + 1
                 /\ UNCHANGED <<pending, settled>>
       ELSE /\ pending' = "body"
            /\ UNCHANGED <<maxRedirects, requests, settled>>
    /\ UNCHANGED options
    /\ UNCHANGED exceptFetcher

\* res.on('end'): the body is complete
End ==
    /\ pending = "body"
    /\ settled' = <<Resolved>>
    /\ pending' = "none"
    /\ UNCHANGED <<options, maxRedirects, requests>>
    /\ UNCHANGED exceptFetcher

\* req.on('error')
RequestError ==
    /\ pending \in {"request", "body"}
    /\ settled' = <<Rejected("Failed to fetch URL")>>
    /\ pending' = "none"
    /\ UNCHANGED <<options, maxRedirects, requests>>
    /\ UNCHANGED exceptFetcher

\* req.on('timeout'): the request is destroyed
RequestTimeout ==
    /\ pending \in {"request", "body"}
    /\ settled' = <<Rejected("Request timeout")>>
    /\ pending' = "none"
    /\ UNCHANGED <<options, maxRedirects, requests>>
    /\ UNCHANGED exceptFetcher

FetchInit ==
    /\ options \in [followRedirects : BOOLEAN, maxRedirects : 0..MaxRedirectsOption]
    /\ maxRedirects = options.maxRedirects
    /\ requests = 0
    /\ pending = "none"
    /\ settled = << >>
    /\ ResolverIdle
    /\ CascadeIdle
    /\ SpecificityIdle
    /\ MatcherIdle
    /\ GhostIdle
    /\ CacheIdle

FetchNext ==
    \/ \E urlValid \in BOOLEAN : FetchURL(urlValid)
    \/ \E statusCode \in StatusCodes, location \in Locations : Response(statusCode, location)
    \/ End
    \/ RequestError
    \/ RequestTimeout

SpecFetch == FetchInit /\ [][FetchNext]_vars

\* the request in flight is answered by a redirect that carries a location
redirectStep ==
    \E statusCode \in RedirectCodes \cap StatusCodes, location \in Locations :
        location.present /\ Response(statusCode, location)

(***************************************************************************)
(* C30: fetchURL sends at most maxRedirects + 1 requests; when the last of *)
(* them is answered by a redirect as well, the promise is rejected with    *)
(* 'Too many redirects'; and once no request and no response body is       *)
(* awaited any more, the promise has been resolved or rejected.            *)
(***************************************************************************)
C30_RedirectsBoundedAndSettled ==
    [][/\ requests' <= options.maxRedirects + 1
       /\ (options.followRedirects /\ requests = options.maxRedirects + 1 /\ redirectStep)
             => settled' = <<Rejected("Too many redirects")>>
       /\ (requests' > 0 /\ pending' = "none") => settled' # << >>]_vars
====
